---- MODULE Spec2Model ----
(***************************************************************************)
(* The resumable crawl-and-extract pipeline of the three scrapers          *)
(*   sd  src/Pricing/sd_scrape.py                                          *)
(*   b2  src/b2_scrape.py                                                  *)
(*   ws  src/ws_scrape.py                                                  *)
(* A URL string is a sequence of tokens (host, path segments, extension,   *)
(* query, fragment); the string operations of the code (substring test,    *)
(* endswith, split) are computed on these sequences.  A text file is the   *)
(* sequence of the tokens written to it, "\n" included.                    *)
(* The environment decides whether a page load, a login or a selection     *)
(* succeeds and what a price read returns; a page that has loaded answers  *)
(* the reads of its links and markers.  The product pages of the crawled   *)
(* site have at most one dropdown / attribute; the extraction of a page    *)
(* with several attributes, the parse of a price text and the link loop of *)
(* a page are specifications of their own over the same variables, and so  *)
(* are the crawl loop alone, on the shop or on a calendar site with no     *)
(* last page, and one page load seen attempt by attempt.  The functions    *)
(* that read a loaded page (is_product_page, b2 get_attribute_options, ws  *)
(* process_pricing_data) and b2 write_csv are each called once on a page   *)
(* or a buffer drawn from a set of inputs.                                 *)
(***************************************************************************)
EXTENDS Integers, Sequences, FiniteSets, TLC

VARIABLES
    variant,       \* which scraper runs: "sd", "b2" or "ws"
    run,           \* number of the current process run (1 = first)
    pc,            \* position of main()
    knownFile,     \* sd_products.txt / b2_products.txt / ws_products.txt
    resultFile,    \* the dated CSV file, a sequence of rows
    loggedIn,      \* the browser session holds a login
    todo,          \* URLs the current for-loop of main() still has to iterate
    idx,           \* number of iterations the current for-loop has started
    processed,     \* sd processed_urls / b2 processed / ws known_urls
    buffer,        \* sd products / b2 all_rows / ws option_data
    product_count, \* b2 product_count
    new_count,     \* b2 new_count
    batch_new,     \* b2 batch_new
    already,       \* crawl_site: already_scraped / skip_urls
    visited,       \* crawl_site: visited
    product_urls,  \* crawl_site: product_urls / products
    to_visit,      \* crawl_site: to_visit / queue
    flushRet,      \* where main() continues after the flush in progress
    navLog,        \* history: the crawl's page fetches of this run, in order
    startKnown,    \* history: known-URL lines in the file when this run started
    lastSnapshot,  \* history: rows written by the last completed flush
    flushedOnce,   \* history: some flush has completed (in any run)
    flushedRun,    \* history: some flush has completed in this run
    prevFile,      \* history: result file when the previous run ended
    prevFlushed,   \* history: the previous run had completed a flush
    appended,      \* history: URLs handed to a completed known-URL append
    abortCause,    \* history: why main() was left by an exception
    attrs,         \* the option lists of the page under extraction, in page order
    selLog,        \* history: per combination, whether its selections succeeded
    priceLog,      \* history: per combination, what the price read gave
    priceText,     \* b2 parse_price_table: the text of the subtotal element
    parsed,        \* b2 parse_price_table: what the call gave
    href_list,     \* crawl_site: the hrefs of the page whose links are read
    site,          \* which site answers the crawl: "shop" or "endless"
    caller,        \* page load: the code that loads the page
    loadLog,       \* history: the driver.get results and sleeps of the page load
    enqueued,      \* history: the URLs put into the crawl's queue, in order,
                   \*   each with the link distance of the page it was found on + 1
    dequeued,      \* history: the URLs taken out of the crawl's queue, in order
    dom,           \* the page the driver shows to the function under call
    driverLog,     \* history: the waits and reads of the function under call
    returned       \* what the function under call has returned

vars == <<variant, run, pc, knownFile, resultFile, loggedIn, todo, idx,
          processed, buffer, product_count, new_count, batch_new, already,
          visited, product_urls, to_visit, flushRet, navLog, startKnown,
          lastSnapshot, flushedOnce, flushedRun, prevFile, prevFlushed,
          appended, abortCause, attrs, selLog, priceLog, priceText, parsed,
          href_list, site, caller, loadLog, enqueued, dequeued, dom,
          driverLog, returned>>

durableVars == <<knownFile, resultFile>>
crawlVars == <<already, visited, product_urls, to_visit>>
crawlHist == <<enqueued, dequeued>>
b2Counters == <<product_count, new_count, batch_new>>
flushHist == <<lastSnapshot, flushedOnce, flushedRun>>
runHist == <<startKnown, prevFile, prevFlushed>>
pageVars == <<attrs, selLog, priceLog>>
parseVars == <<priceText, parsed>>
linkVars == <<href_list, site>>
loadVars == <<caller, loadLog>>
callVars == <<dom, driverLog, returned>>
unitVars == <<pageVars, parseVars, linkVars, loadVars, callVars>>

----------------------------------------------------------------------------
(* Bounds of the model *)

\* crawl_site's max_pages (5000 in sd and b2, 10000 in ws), scaled down
MaxPages == 5
\* the flush interval (10 products in the source), scaled down
SaveEvery == 2
\* b2's known-URL append batch (10 new URLs in the source), scaled down
AppendEvery == 2
\* process runs in one behaviour: the first run and the runs restarted after it
MaxRuns == 2

MAX_RETRIES == 5

Variants == {"sd", "b2", "ws"}

----------------------------------------------------------------------------
(* Sequences and strings *)

Range(s) == {s[i] : i \in 1..Len(s)}

Min(S) == CHOOSE x \in S : \A y \in S : x <= y

RECURSIVE Concat(_)
Concat(ss) == IF ss = <<>> THEN <<>> ELSE Head(ss) \o Concat(Tail(ss))

\* the orders of a list that names one member of the set twice
OrdersRepeating(S) == {s \in [1..(Cardinality(S) + 1) -> S] : Range(s) = S}

\* all orders in which a set can be iterated
Orders(S) == {s \in [1..Cardinality(S) -> S] : Range(s) = S}

\* the tokens that begin with "#" (a fragment) and with "?" (a query string)
FragTokens == {"#r", "#p"}
QueryTokens == {"?x=1", "?a=1&navCode=2", "?display=list"}

\* str.lower() on a token
Lower(tok) == IF tok = ".PDF" THEN ".pdf" ELSE tok

\* pat in url
Contains(url, pat) ==
    \E i \in 0..(Len(url) - Len(pat)) : SubSeq(url, i + 1, i + Len(pat)) = pat

\* url.split(sep)[0], sep being the first character of the tokens of seps
SplitHead(url, seps) ==
    LET hits == {i \in 1..Len(url) : url[i] \in seps}
    IN  IF hits = {} THEN url ELSE SubSeq(url, 1, Min(hits) - 1)

\* urlparse(href).netloc
Netloc(href) == IF href = <<>> THEN "" ELSE href[1]

----------------------------------------------------------------------------
(* The site: the pages behind the URLs and the links they show *)

Base == <<"H", "/">>
PageA == <<"H", "/a">>
P1 == <<"H", "/p1">>
P2 == <<"H", "/p2">>
P1Frag == <<"H", "/p1", "#r">>
CartCheckout == <<"H", "/cart", "/checkout">>
Pdf == <<"H", "/f", ".pdf">>
PdfQuery == <<"H", "/f", ".pdf", "?x=1">>
PdfFrag == <<"H", "/f", ".pdf", "#p">>
Offsite == <<"O", "/z">>

ProductPages == {P1, P2}

\* the calendar of the endless site: the page of a month links to the next
\* two months, to itself, to the month before it, to the list of its events
\* and to the base page
Cal == <<"H", "/cal">>
IsMonth(url) ==
    /\ Len(url) >= 2 /\ SubSeq(url, 1, 2) = Cal
    /\ \A i \in 3..Len(url) : url[i] = "/next"
CalLinks(url) ==
    <<url \o <<"/next">>, url \o <<"/next", "/next">>, url>>
        \o (IF url = Cal THEN <<>> ELSE <<SubSeq(url, 1, Len(url) - 1)>>)
        \o <<url \o <<"/events">>, Base>>

\* the hrefs of the <a> elements of the page loaded from url, in document order
Links(url) ==
    IF site = "endless"
    THEN IF url = Base THEN <<Cal, Base, Cal \o <<"/next">>>>
         ELSE IF IsMonth(url) THEN CalLinks(url)
         ELSE <<>>
    ELSE IF url = Base THEN <<CartCheckout, P1, PageA, P1Frag>>
    ELSE IF url = PageA THEN <<P2, PdfQuery, PdfFrag, Offsite, P1>>
    ELSE IF url = P1 THEN <<PageA, Base>>
    ELSE <<>>

\* the DOM markers present on the page loaded from url
Markers(url) ==
    IF url \in ProductPages \cup {Base}
    THEN {".product-detail-container", "title-breadcrumb",
          "item-view-title", "_subtotal_", "ProductDetails.Full.View"}
    ELSE IF url = PageA THEN {"title-breadcrumb", "item-view-title", "facet-browse"}
    ELSE {}

ProductName(url) == IF url = P1 THEN "Banner" ELSE IF url = P2 THEN "Stand" ELSE "N/A"
ProductImage(url) == IF url = P1 THEN "p1.jpg" ELSE IF url = P2 THEN "p2.jpg" ELSE "N/A"

\* the option labels of the attribute controls of a product page
Options(url) == IF url = P2 THEN <<"S", "M">> ELSE <<>>

----------------------------------------------------------------------------
(* Exclusion policy and page classifier of each crawl_site variant *)

\* the download-extension denylists, by their common member
DownloadExt == {".pdf"}

\* url.lower().endswith(ext) for some ext of the denylist
EndsWithExt(url) == url /= <<>> /\ Lower(url[Len(url)]) \in DownloadExt

\* sub in url, for a substring sub that lies inside single tokens
HasToken(url, toks) == \E i \in 1..Len(url) : url[i] \in toks

NavCodeTokens == {"?a=1&navCode=2"}
DisplayTokens == {"?display=list"}
NewReviewTokens == {"/newReview"}

\* sd: any(pattern in url for pattern in excluded_patterns); the prefix
\* patterns (cdn, Account, Cart, ProductSearch) by the one for the cart
SdExcluded(url) ==
    \/ Contains(url, <<"H", "/cart">>)
    \/ HasToken(url, NavCodeTokens)

\* b2: any(ex in url for ex in excluded)
B2Excluded(url) == Contains(url, <<"H", "/cart">>)

\* ws: any(pattern in url for pattern in excluded_patterns), "#" included
WsExcluded(url) ==
    \/ Contains(url, <<"H", "/cart">>)
    \/ HasToken(url, FragTokens)

SdIsProductPage(url) ==
    /\ ".product-detail-container" \in Markers(url)
    /\ "title-breadcrumb" \in Markers(url)

B2IsProductPage(url) ==
    /\ "item-view-title" \in Markers(url)
    /\ "_subtotal_" \in Markers(url)

WsIsProductPage(url) ==
    /\ ~HasToken(url, QueryTokens)
    /\ ~HasToken(url, NewReviewTokens)
    /\ Markers(url) \cap {"facet-browse", "cms-landing-page", "home-page"} = {}
    /\ "ProductDetails.Full.View" \in Markers(url)

\* sd crawl_site: the visited page is added to product_urls
SdProductFound(url) == url /= Base /\ SdIsProductPage(url)

\* the test without the comparison with base_url
B2ProductFoundAnyUrl(url) == B2IsProductPage(url)

\* b2 crawl_site: the visited page is added to products
B2ProductFound(url) == url /= Base /\ B2IsProductPage(url)

\* ws crawl_site: the visited page is added to product_urls
WsProductFound(url, skip) ==
    url /= Base /\ WsIsProductPage(url) /\ url \notin skip

\* sd: normalized = href.split("#")[0]
SdNormalize(h) == SplitHead(h, FragTokens)

\* sd: the URLs the link loop appends to to_visit
SdNewLinks(links, vis, alr) ==
    LET Norm(h) == SdNormalize(h)
        Keep(h) == /\ h /= <<>>
                   /\ ~SdExcluded(h)
                   /\ ~EndsWithExt(h)
                   /\ Netloc(h) = Netloc(Base)
                   /\ Norm(h) \notin vis \cup alr
        kept == SelectSeq(links, Keep)
    IN  [i \in 1..Len(kept) |-> Norm(kept[i])]

\* b2: clean = href.split('#')[0].split('?', 1)[0]
B2Normalize(h) == SplitHead(SplitHead(h, FragTokens), QueryTokens)

\* the link loop without the comparison of the link's host with the domain
B2NewLinksAnyDomain(links, vis, alr) ==
    LET Norm(h) == B2Normalize(h)
        Keep(h) == Norm(h) \notin vis \cup alr
        kept == SelectSeq(links, Keep)
    IN  [i \in 1..Len(kept) |-> Norm(kept[i])]

\* b2: the URLs the link loop appends to queue
B2NewLinks(links, vis, alr) ==
    LET Norm(h) == B2Normalize(h)
        Keep(h) == /\ Netloc(h) = Netloc(Base)
                   /\ Norm(h) \notin vis \cup alr
        kept == SelectSeq(links, Keep)
    IN  [i \in 1..Len(kept) |-> Norm(kept[i])]

\* ws: normalized = href.split("#")[0]
WsNormalize(h) == SplitHead(h, FragTokens)

\* ws: the URLs the link loop appends to to_visit
WsNewLinks(links, vis, skip) ==
    LET Norm(h) == WsNormalize(h)
        Keep(h) == /\ ~WsExcluded(h)
                   /\ ~EndsWithExt(h)
                   /\ ~HasToken(h, DisplayTokens)
                   /\ Netloc(h) = Netloc(Base)
                   /\ Norm(h) \notin vis \cup skip
        kept == SelectSeq(links, Keep)
    IN  [i \in 1..Len(kept) |-> Norm(kept[i])]

\* b2 load_page_with_retry when the first `failures` attempts fail
LoadPageWithRetry(failures) ==
    IF failures < MAX_RETRIES THEN "loaded" ELSE "SystemExit"

----------------------------------------------------------------------------
(* The known-URL file *)

NL == "\n"

\* the tokens that f.write(url + "\n") for url in urls puts into the file
WriteLines(urls) == Concat([i \in 1..Len(urls) |-> urls[i] \o <<NL>>])

\* the append with the line ends left out of the writes
AppendLinesNoNewline(file, urls) == file \o Concat(urls)

\* open(path, "a"): the writes go behind what the file holds
AppendLines(file, urls) == file \o WriteLines(urls)

\* f.read().splitlines()
RECURSIVE SplitLines(_)
SplitLines(file) ==
    LET hits == {i \in 1..Len(file) : file[i] = NL}
    IN  IF file = <<>> THEN <<>>
        ELSE IF hits = {} THEN <<file>>
        ELSE <<SubSeq(file, 1, Min(hits) - 1)>>
             \o SplitLines(SubSeq(file, Min(hits) + 1, Len(file)))

\* sd read_scraped_urls, ws read_known_urls: the stripped non-empty lines
ReadKnownUrls(file) == {l \in Range(SplitLines(file)) : l /= <<>>}

\* the known-URL files a first run can find: none, or one written earlier
InitialKnownFiles == {<<>>, WriteLines(<<P1>>), WriteLines(<<P1, P2>>)}

----------------------------------------------------------------------------
(* Price reads and the rows of the result file.  A row is a sequence of   *)
(* cells; the URL cell holds a URL, its empty text being the empty sequence *)

\* sd parse_price_table: (qty_headers, retail_prices, your_prices); the
\* result (None, None, None) is as empty as three empty lists to the caller
SdNoTable == [qty |-> <<>>, retail |-> <<>>, your |-> <<>>]
SdTables == {SdNoTable, [qty |-> <<"100">>, retail |-> <<"$9.00">>, your |-> <<"$5.00">>]}

\* sd main: the entry appended to products, when there is one
SdEntry(url, t) ==
    IF t.qty /= <<>> /\ t.retail /= <<>> /\ t.your /= <<>>
    THEN <<[name |-> ProductName(url), url |-> url,
            rows |-> << <<ProductName(url), url, ProductImage(url)>>
                           \o [i \in 1..Len(t.qty) |-> "'" \o t.qty[i]],
                        <<"", <<>>, "Retail Price">> \o t.retail,
                        <<"", <<>>, "Your Price">> \o t.your >>]>>
    ELSE <<>>

\* sd main: all_data
SdAllData(products) == Concat([i \in 1..Len(products) |-> products[i].rows])

\* b2 parse_price_table: a number or None
B2Prices == {"None", "5.0"}

\* b2 main: price or ""
B2PriceCell(price) == IF price \in {"None", "0.0"} THEN "" ELSE price

\* b2 main: the combinations of itertools.product(*attrs.values()) for the
\* one attribute "Size" of the page, as opt_str; "" when there is none
B2Combos(url) ==
    IF Options(url) = <<>> THEN <<"">>
    ELSE [i \in 1..Len(Options(url)) |-> "Size: " \o Options(url)[i]]

\* b2 main: the rows appended for one product, prices[i] read for combo i
B2Rows(url, prices) ==
    [i \in 1..Len(B2Combos(url)) |->
        <<ProductName(url), url, ProductImage(url), B2Combos(url)[i],
          B2PriceCell(prices[i])>>]

\* b2 write_csv: grouped, with the name last written carried along
RECURSIVE B2Grouped(_, _)
B2Grouped(rows, last) ==
    IF rows = <<>> THEN <<>>
    ELSE LET r == Head(rows)
         IN  IF r[1] /= last
             THEN <<r>> \o B2Grouped(Tail(rows), r[1])
             ELSE << <<"", <<>>, "", r[4], r[5]>> >> \o B2Grouped(Tail(rows), last)

B2Csv(rows) == << <<"Product", <<"URL">>, "Image", "Options", "Price">> >>
               \o B2Grouped(rows, "None")

\* ws process_pricing_data: a (quantities, prices) pair, a price text or "N/A",
\* as the (qtys, prices) the caller makes of it
WsPricing == {[qtys |-> <<"1 - 9">>, prices |-> <<"$5.00">>],
              [qtys |-> <<"N/A">>, prices |-> <<>>]}

\* the rewrite with the pattern searched anywhere in the label
FixQtyValueUnanchored(q) ==
    IF q \in {"1 - 9", "1-9"} THEN "'1-9"
    ELSE IF q \in {"'1-9", "''1-9"} THEN "'" \o q
    ELSE q

\* ws fix_qty_value
FixQtyValue(q) == IF q \in {"1 - 9", "1-9"} THEN "'1-9" ELSE q

\* ws generate_final_rows: option_data after the first loop
WsFixed(option_data) ==
    [i \in 1..Len(option_data) |->
        [option_data[i] EXCEPT !.qtys = [j \in 1..Len(@) |-> FixQtyValue(@[j])]]]

Blanks(n) == [i \in 1..n |-> ""]

\* ws generate_final_rows: option_text
OptionText(option) == IF option = "" THEN "N/A" ELSE option

Max(S) == CHOOSE x \in S : \A y \in S : x >= y

\* ws generate_final_rows: final_rows, from the entries whose quantity
\* labels the first loop has rewritten
WsRows(data) ==
    LET lens == {Len(data[i].qtys) : i \in {j \in 1..Len(data) : data[j].qtys /= <<>>}}
        cols == IF lens = {} THEN 1 ELSE Max(lens)
        Ident(e) == IF e.first THEN <<e.product[1], e.product[2], e.product[3]>>
                    ELSE <<"", <<>>, "">>
        RowsOf(e) ==
            LET qtys == e.qtys \o Blanks(cols - Len(e.qtys))
                prices == e.prices \o Blanks(cols - Len(e.prices))
            IN  IF prices /= <<>>
                THEN << Ident(e) \o <<OptionText(e.option)>> \o qtys,
                        <<"", <<>>, "", "">> \o prices >>
                ELSE << Ident(e) \o <<OptionText(e.option)>> \o qtys \o Blanks(cols) >>
    IN  Concat([i \in 1..Len(data) |-> RowsOf(data[i])])

\* ws generate_final_rows(option_data): the value returned
WsFinalRows(option_data) == WsRows(WsFixed(option_data))

\* the rows a flush of the buffer writes
ResultRows(v, buf) ==
    IF v = "sd" THEN SdAllData(buf)
    ELSE IF v = "b2" THEN B2Csv(buf)
    ELSE WsFinalRows(buf)

\* the rows writerows puts into the opened file; in ws the buffer carries
\* the rewritten quantity labels by then
WrittenRows(v, buf) == IF v = "ws" THEN WsRows(buf) ELSE ResultRows(v, buf)

----------------------------------------------------------------------------
(* Start of a run, flush, interruption *)

Ended == {"done", "aborted", "crashed"}

\* the memory of a process that has just started
FreshMemory ==
    /\ pc = "start"
    /\ loggedIn = FALSE
    /\ todo = <<>>
    /\ idx = 0
    /\ processed = {}
    /\ buffer = <<>>
    /\ product_count = 0
    /\ new_count = 0
    /\ batch_new = <<>>
    /\ already = {}
    /\ visited = {}
    /\ product_urls = {}
    /\ to_visit = <<>>
    /\ flushRet = "none"
    /\ navLog = <<>>
    /\ flushedRun = FALSE
    /\ appended = {}
    /\ abortCause = "none"
    /\ enqueued = <<>>
    /\ dequeued = <<>>

\* parse_price_table has not been called
NotParsed == [kind |-> "none", int |-> <<>>, frac |-> <<>>]

\* no function is under call
NotCalled == "none"
CallIdle ==
    /\ dom = <<>>
    /\ driverLog = <<>>
    /\ returned = NotCalled

\* no page is under extraction, no price text, no href and no page load
\* under test; the crawl is on the shop
UnitIdle ==
    /\ attrs = <<>>
    /\ selLog = <<>>
    /\ priceLog = <<>>
    /\ priceText = <<>>
    /\ parsed = NotParsed
    /\ href_list = <<>>
    /\ site = "shop"
    /\ caller = "none"
    /\ loadLog = <<>>
    /\ CallIdle

Init ==
    /\ variant \in Variants
    /\ run = 1
    /\ knownFile \in InitialKnownFiles
    /\ resultFile = <<>>
    /\ FreshMemory
    /\ UnitIdle
    /\ startKnown = ReadKnownUrls(knownFile)
    /\ lastSnapshot = <<>>
    /\ flushedOnce = FALSE
    /\ prevFile = <<>>
    /\ prevFlushed = FALSE

\* main() goes on at `to`
Goto(to) == pc' = to /\ flushRet' = flushRet

\* main() calls the flush and goes on at `ret` after it
Flush(ret) == pc' = "flushOpen" /\ flushRet' = ret

\* an exception leaves main() through its finally block
Abort(cause) == pc' = "aborted" /\ abortCause' = cause /\ flushRet' = flushRet

\* the flush up to open(path, "w"), which empties the file; ws has rewritten
\* the quantity labels of the buffered entries before it
FlushOpen ==
    /\ pc = "flushOpen"
    /\ pc' = "flushWrite"
    /\ resultFile' = <<>>
    /\ buffer' = IF variant = "ws" THEN WsFixed(buffer) ELSE buffer
    /\ UNCHANGED <<unitVars, crawlHist, variant, run, knownFile, loggedIn, todo, idx, processed,
                   b2Counters, crawlVars, flushRet, navLog, flushHist, runHist,
                   appended, abortCause>>

\* the flush from writerows to the close of the file
FlushWrite ==
    /\ pc = "flushWrite"
    /\ pc' = flushRet
    /\ resultFile' = WrittenRows(variant, buffer)
    /\ lastSnapshot' = WrittenRows(variant, buffer)
    /\ flushedOnce' = TRUE
    /\ flushedRun' = TRUE
    /\ UNCHANGED <<unitVars, crawlHist, variant, run, knownFile, loggedIn, todo, idx, processed,
                   buffer, b2Counters, crawlVars, flushRet, navLog, runHist,
                   appended, abortCause>>

\* the process is interrupted; in the middle of a flush the interrupt closes
\* the file with the rows written so far
Crash ==
    /\ pc \notin Ended
    /\ pc' = "crashed"
    /\ IF pc = "flushWrite"
       THEN \E k \in 0..Len(WrittenRows(variant, buffer)) :
                resultFile' = SubSeq(WrittenRows(variant, buffer), 1, k)
       ELSE resultFile' = resultFile
    /\ UNCHANGED <<unitVars, crawlHist, variant, run, knownFile, loggedIn, todo, idx, processed,
                   buffer, b2Counters, crawlVars, flushRet, navLog, flushHist,
                   runHist, appended, abortCause>>

\* the script is started again on the same day: the files are what the last
\* run left, the memory is new
Restart ==
    /\ pc \in Ended
    /\ run < MaxRuns
    /\ run' = run + 1
    /\ pc' = "start"
    /\ loggedIn' = FALSE
    /\ todo' = <<>>
    /\ idx' = 0
    /\ processed' = {}
    /\ buffer' = <<>>
    /\ product_count' = 0
    /\ new_count' = 0
    /\ batch_new' = <<>>
    /\ already' = {}
    /\ visited' = {}
    /\ product_urls' = {}
    /\ to_visit' = <<>>
    /\ flushRet' = "none"
    /\ navLog' = <<>>
    /\ flushedRun' = FALSE
    /\ appended' = {}
    /\ abortCause' = "none"
    /\ enqueued' = <<>>
    /\ dequeued' = <<>>
    /\ startKnown' = ReadKnownUrls(knownFile)
    /\ prevFile' = resultFile
    /\ prevFlushed' = (flushedRun /\ pc /= "done")
    /\ UNCHANGED <<unitVars, variant, knownFile, resultFile, lastSnapshot, flushedOnce>>

\* the history of an iteration of a crawl loop: the URL taken from the
\* queue, and the URLs appended to it with the link distance of the page
\* they were found on, plus one
FirstDistance(log, url) ==
    log[Min({i \in 1..Len(log) : log[i].url = url})].d

CrawlHistory ==
    LET new == SubSeq(to_visit', Len(to_visit), Len(to_visit'))
        dist == FirstDistance(enqueued, Head(to_visit)) + 1
    IN  /\ dequeued' = Append(dequeued, Head(to_visit))
        /\ enqueued' = enqueued \o [i \in 1..Len(new) |-> [url |-> new[i], d |-> dist]]

----------------------------------------------------------------------------
(* sd: crawl_site and main *)

\* login, after the known URLs were read; a failed login raises SystemExit
SdLogin ==
    /\ variant = "sd" /\ pc = "start"
    /\ \E ok \in BOOLEAN :
        IF ok
        THEN /\ loggedIn' = TRUE
             /\ \E order \in Orders(ReadKnownUrls(knownFile)) : todo' = order
             /\ Goto("known")
             /\ UNCHANGED abortCause
        ELSE /\ Abort("login")
             /\ UNCHANGED <<loggedIn, todo>>
    /\ UNCHANGED <<unitVars, crawlHist, variant, run, durableVars, idx, processed, buffer, b2Counters,
                   crawlVars, navLog, flushHist, runHist, appended>>

\* one iteration of the loop over the previously scraped URLs
SdProcessKnown ==
    /\ variant = "sd" /\ pc = "known" /\ todo /= <<>>
    /\ LET url == Head(todo) IN
       /\ todo' = Tail(todo)
       /\ idx' = idx + 1
       /\ navLog' = Append(navLog, [phase |-> "known", url |-> url])
       /\ \E loads \in BOOLEAN, t \in SdTables :
            IF loads
            THEN /\ buffer' = buffer \o SdEntry(url, t)
                 /\ processed' = IF SdEntry(url, t) /= <<>>
                                 THEN processed \cup {url} ELSE processed
            ELSE UNCHANGED <<buffer, processed>>
    /\ UNCHANGED <<unitVars, crawlHist, variant, run, pc, durableVars, loggedIn, b2Counters, crawlVars,
                   flushRet, flushHist, runHist, appended, abortCause>>

\* after the loop: the CSV is saved when there are products
SdKnownDone ==
    /\ variant = "sd" /\ pc = "known" /\ todo = <<>>
    /\ IF buffer /= <<>> THEN Flush("crawlStart") ELSE Goto("crawlStart")
    /\ UNCHANGED <<unitVars, crawlHist, variant, run, durableVars, loggedIn, todo, idx, processed,
                   buffer, b2Counters, crawlVars, navLog, flushHist, runHist,
                   appended, abortCause>>

\* crawl_site(driver, BASE_URL, already_scraped=processed_urls) up to the loop
SdCrawlStart ==
    /\ variant = "sd" /\ pc = "crawlStart"
    /\ already' = processed
    /\ visited' = {}
    /\ product_urls' = {}
    /\ to_visit' = <<Base>>
    /\ enqueued' = <<[url |-> Base, d |-> 0]>>
    /\ dequeued' = <<>>
    /\ Goto("crawl")
    /\ UNCHANGED <<unitVars, variant, run, durableVars, loggedIn, todo, idx, processed,
                   buffer, b2Counters, navLog, flushHist, runHist, appended,
                   abortCause>>

\* the iteration that leaves a URL that is visited or known in the queue
SdCrawlStepNoPop ==
    /\ variant = "sd" /\ pc = "crawl"
    /\ to_visit /= <<>> /\ Cardinality(visited) < MaxPages
    /\ LET current_url == Head(to_visit) IN
       IF current_url \in visited \/ current_url \in already
       THEN UNCHANGED <<to_visit, visited, product_urls, navLog, crawlHist>>
       ELSE IF SdExcluded(current_url) \/ EndsWithExt(current_url)
       THEN /\ to_visit' = Tail(to_visit)
            /\ visited' = visited \cup {current_url}
            /\ UNCHANGED <<product_urls, navLog>>
            /\ CrawlHistory
       ELSE /\ navLog' = Append(navLog, [phase |-> "crawl", url |-> current_url])
            /\ \E loads \in BOOLEAN :
                IF loads
                THEN /\ visited' = visited \cup {current_url}
                     /\ product_urls' =
                           IF SdProductFound(current_url)
                           THEN product_urls \cup {current_url} ELSE product_urls
                     /\ to_visit' = Tail(to_visit)
                           \o SdNewLinks(Links(current_url),
                                         visited \cup {current_url}, already)
                ELSE /\ to_visit' = Tail(to_visit)
                     /\ UNCHANGED <<visited, product_urls>>
            /\ CrawlHistory
    /\ UNCHANGED <<unitVars, variant, run, pc, durableVars, loggedIn, todo, idx, processed,
                   buffer, b2Counters, already, flushRet, flushHist, runHist,
                   appended, abortCause>>

\* one iteration of the crawl loop
SdCrawlStep ==
    /\ variant = "sd" /\ pc = "crawl"
    /\ to_visit /= <<>> /\ Cardinality(visited) < MaxPages
    /\ LET current_url == Head(to_visit) IN
       IF current_url \in visited \/ current_url \in already
       THEN /\ to_visit' = Tail(to_visit)
            /\ UNCHANGED <<visited, product_urls, navLog>>
       ELSE IF SdExcluded(current_url) \/ EndsWithExt(current_url)
       THEN /\ to_visit' = Tail(to_visit)
            /\ visited' = visited \cup {current_url}
            /\ UNCHANGED <<product_urls, navLog>>
       ELSE /\ navLog' = Append(navLog, [phase |-> "crawl", url |-> current_url])
            /\ \E loads \in BOOLEAN :
                IF loads
                THEN /\ visited' = visited \cup {current_url}
                     /\ product_urls' =
                           IF SdProductFound(current_url)
                           THEN product_urls \cup {current_url} ELSE product_urls
                     /\ to_visit' = Tail(to_visit)
                           \o SdNewLinks(Links(current_url),
                                         visited \cup {current_url}, already)
                ELSE /\ to_visit' = Tail(to_visit)
                     /\ UNCHANGED <<visited, product_urls>>
    /\ CrawlHistory
    /\ UNCHANGED <<unitVars, variant, run, pc, durableVars, loggedIn, todo, idx, processed,
                   buffer, b2Counters, already, flushRet, flushHist, runHist,
                   appended, abortCause>>

\* the crawl loop ends and main takes list(product_urls)
SdCrawlReturn ==
    /\ variant = "sd" /\ pc = "crawl"
    /\ to_visit = <<>> \/ Cardinality(visited) >= MaxPages
    /\ \E order \in Orders(product_urls) : todo' = order
    /\ idx' = 0
    /\ Goto("new")
    /\ UNCHANGED <<unitVars, crawlHist, variant, run, durableVars, loggedIn, processed, buffer,
                   b2Counters, crawlVars, navLog, flushHist, runHist, appended,
                   abortCause>>

\* one iteration of the loop over the new product URLs
SdProcessNew ==
    /\ variant = "sd" /\ pc = "new" /\ todo /= <<>>
    /\ LET url == Head(todo) IN
       /\ todo' = Tail(todo)
       /\ idx' = idx + 1
       /\ navLog' = Append(navLog, [phase |-> "new", url |-> url])
       /\ \E loads \in BOOLEAN, t \in SdTables :
            IF loads
            THEN /\ buffer' = buffer \o SdEntry(url, t)
                 /\ processed' = IF SdEntry(url, t) /= <<>>
                                 THEN processed \cup {url} ELSE processed
                 /\ IF (idx + 1) % SaveEvery = 0 THEN Flush("new") ELSE Goto("new")
            ELSE /\ UNCHANGED <<buffer, processed>>
                 /\ Goto("new")
    /\ UNCHANGED <<unitVars, crawlHist, variant, run, durableVars, loggedIn, b2Counters, crawlVars,
                   flushHist, runHist, appended, abortCause>>

\* the new-URL loop ends and main goes on without the final save
SdNewDoneNoSave ==
    /\ variant = "sd" /\ pc = "new" /\ todo = <<>>
    /\ Goto("update")
    /\ UNCHANGED <<unitVars, crawlHist, variant, run, durableVars, loggedIn, todo, idx, processed,
                   buffer, b2Counters, crawlVars, navLog, flushHist, runHist,
                   appended, abortCause>>

\* after the loop: the final CSV save
SdNewDone ==
    /\ variant = "sd" /\ pc = "new" /\ todo = <<>>
    /\ Flush("update")
    /\ UNCHANGED <<unitVars, crawlHist, variant, run, durableVars, loggedIn, todo, idx, processed,
                   buffer, b2Counters, crawlVars, navLog, flushHist, runHist,
                   appended, abortCause>>

\* update_scraped_urls(scraped_file, processed_urls): the file is rewritten
SdUpdateScrapedUrls ==
    /\ variant = "sd" /\ pc = "update"
    /\ \E order \in Orders(processed) : knownFile' = WriteLines(order)
    /\ appended' = appended \cup processed
    /\ Goto("done")
    /\ UNCHANGED <<unitVars, crawlHist, variant, run, resultFile, loggedIn, todo, idx, processed,
                   buffer, b2Counters, crawlVars, navLog, flushHist, runHist,
                   abortCause>>

----------------------------------------------------------------------------
(* b2: crawl_site and main *)

\* what the page of a product gives to the steps before the price reads:
\* "skip" (an input in the attributes, or no product name), "raise" (the
\* image wait times out, which main does not catch) or "ok"
B2PageOutcomes == {"skip", "raise", "ok"}

\* the file is read into initial, then login; a failure there leaves main
B2Login ==
    /\ variant = "b2" /\ pc = "start"
    /\ processed' = Range(SplitLines(knownFile))
    /\ \E ok \in BOOLEAN :
        IF ok
        THEN /\ loggedIn' = TRUE
             /\ todo' = SplitLines(knownFile)
             /\ Goto("known")
             /\ UNCHANGED abortCause
        ELSE /\ Abort("login")
             /\ UNCHANGED <<loggedIn, todo>>
    /\ UNCHANGED <<unitVars, crawlHist, variant, run, durableVars, idx, buffer, b2Counters,
                   crawlVars, navLog, flushHist, runHist, appended>>

\* one iteration of the loop over the existing pages
B2ProcessKnown ==
    /\ variant = "b2" /\ pc = "known" /\ todo /= <<>>
    /\ LET url == Head(todo) IN
       /\ todo' = Tail(todo)
       /\ idx' = idx + 1
       /\ navLog' = Append(navLog, [phase |-> "known", url |-> url])
       /\ \E failures \in 0..MAX_RETRIES, outcome \in B2PageOutcomes,
             prices \in [1..Len(B2Combos(url)) -> B2Prices] :
            IF LoadPageWithRetry(failures) = "SystemExit"
            THEN /\ Abort("load")
                 /\ UNCHANGED <<buffer, product_count>>
            ELSE IF outcome = "skip"
            THEN /\ Goto("known")
                 /\ UNCHANGED <<buffer, product_count, abortCause>>
            ELSE IF outcome = "raise"
            THEN /\ Abort("extract")
                 /\ UNCHANGED <<buffer, product_count>>
            ELSE /\ buffer' = buffer \o B2Rows(url, prices)
                 /\ product_count' = product_count + 1
                 /\ IF (product_count + 1) % SaveEvery = 0
                    THEN Flush("known") ELSE Goto("known")
                 /\ UNCHANGED abortCause
    /\ UNCHANGED <<unitVars, crawlHist, variant, run, durableVars, loggedIn, processed, new_count,
                   batch_new, crawlVars, flushHist, runHist, appended>>

\* crawl_site called without the set of the processed URLs
B2CrawlStartNoKnown ==
    /\ variant = "b2" /\ pc = "known" /\ todo = <<>>
    /\ already' = {}
    /\ visited' = {}
    /\ product_urls' = {}
    /\ to_visit' = <<Base>>
    /\ enqueued' = <<[url |-> Base, d |-> 0]>>
    /\ dequeued' = <<>>
    /\ Goto("crawl")
    /\ UNCHANGED <<unitVars, variant, run, durableVars, loggedIn, todo, idx, processed,
                   buffer, b2Counters, navLog, flushHist, runHist, appended,
                   abortCause>>

\* after the loop: crawl_site(driver, BASE_URL, already_scraped=processed)
\* up to its loop
B2CrawlStart ==
    /\ variant = "b2" /\ pc = "known" /\ todo = <<>>
    /\ already' = processed
    /\ visited' = {}
    /\ product_urls' = {}
    /\ to_visit' = <<Base>>
    /\ enqueued' = <<[url |-> Base, d |-> 0]>>
    /\ dequeued' = <<>>
    /\ Goto("crawl")
    /\ UNCHANGED <<unitVars, variant, run, durableVars, loggedIn, todo, idx, processed,
                   buffer, b2Counters, navLog, flushHist, runHist, appended,
                   abortCause>>

\* the skip test without the test of the excluded patterns
B2CrawlSkipNoPatterns(url, vis, alr) ==
    \/ url \in vis
    \/ url \in alr
    \/ EndsWithExt(url)

\* the test that sends a dequeued URL to visited without a fetch
B2CrawlSkip(url, vis, alr) ==
    \/ url \in vis
    \/ url \in alr
    \/ EndsWithExt(url)
    \/ B2Excluded(url)

\* one iteration of the crawl loop
B2CrawlStep ==
    /\ variant = "b2" /\ pc = "crawl"
    /\ to_visit /= <<>> /\ Cardinality(visited) < MaxPages
    /\ LET url == SplitHead(Head(to_visit), QueryTokens) IN
       IF B2CrawlSkip(url, visited, already)
       THEN /\ to_visit' = Tail(to_visit)
            /\ visited' = visited \cup {url}
            /\ UNCHANGED <<product_urls, navLog>>
       ELSE /\ navLog' = Append(navLog, [phase |-> "crawl", url |-> url])
            /\ visited' = visited \cup {url}
            /\ \E failures \in 0..MAX_RETRIES :
                IF LoadPageWithRetry(failures) = "SystemExit"
                THEN /\ to_visit' = Tail(to_visit)
                     /\ UNCHANGED product_urls
                ELSE /\ product_urls' =
                           IF B2ProductFound(url)
                           THEN product_urls \cup {url} ELSE product_urls
                     /\ to_visit' = Tail(to_visit)
                           \o B2NewLinks(Links(url), visited \cup {url}, already)
    /\ CrawlHistory
    /\ UNCHANGED <<unitVars, variant, run, pc, durableVars, loggedIn, todo, idx, processed,
                   buffer, b2Counters, already, flushRet, flushHist, runHist,
                   appended, abortCause>>

\* the crawl loop ends and main takes list(products)
B2CrawlReturn ==
    /\ variant = "b2" /\ pc = "crawl"
    /\ to_visit = <<>> \/ Cardinality(visited) >= MaxPages
    /\ \E order \in Orders(product_urls) : todo' = order
    /\ idx' = 0
    /\ Goto("new")
    /\ UNCHANGED <<unitVars, crawlHist, variant, run, durableVars, loggedIn, processed, buffer,
                   b2Counters, crawlVars, navLog, flushHist, runHist, appended,
                   abortCause>>

\* one iteration of the loop over the new pages
B2ProcessNew ==
    /\ variant = "b2" /\ pc = "new" /\ todo /= <<>>
    /\ LET url == Head(todo) IN
       /\ todo' = Tail(todo)
       /\ idx' = idx + 1
       /\ navLog' = Append(navLog, [phase |-> "new", url |-> url])
       /\ \E failures \in 0..MAX_RETRIES, outcome \in B2PageOutcomes,
             prices \in [1..Len(B2Combos(url)) -> B2Prices] :
            IF LoadPageWithRetry(failures) = "SystemExit"
            THEN /\ Abort("load")
                 /\ UNCHANGED <<buffer, processed, b2Counters, knownFile, appended>>
            ELSE IF outcome = "skip"
            THEN /\ processed' = processed \cup {url}
                 /\ batch_new' = Append(batch_new, url)
                 /\ new_count' = new_count + 1
                 /\ Goto("new")
                 /\ UNCHANGED <<buffer, product_count, knownFile, appended,
                                abortCause>>
            ELSE IF outcome = "raise"
            THEN /\ Abort("extract")
                 /\ UNCHANGED <<buffer, processed, b2Counters, knownFile, appended>>
            ELSE /\ buffer' = buffer \o B2Rows(url, prices)
                 /\ processed' = processed \cup {url}
                 /\ new_count' = new_count + 1
                 /\ product_count' = product_count + 1
                 /\ IF (new_count + 1) % AppendEvery = 0
                    THEN /\ knownFile' = AppendLines(knownFile, Append(batch_new, url))
                         /\ appended' = appended \cup Range(Append(batch_new, url))
                         /\ batch_new' = <<>>
                    ELSE /\ batch_new' = Append(batch_new, url)
                         /\ UNCHANGED <<knownFile, appended>>
                 /\ IF (product_count + 1) % SaveEvery = 0
                    THEN Flush("new") ELSE Goto("new")
                 /\ UNCHANGED abortCause
    /\ UNCHANGED <<unitVars, crawlHist, variant, run, resultFile, loggedIn, crawlVars, flushHist,
                   runHist>>

\* after the loop: the final CSV save
B2NewDone ==
    /\ variant = "b2" /\ pc = "new" /\ todo = <<>>
    /\ Flush("append")
    /\ UNCHANGED <<unitVars, crawlHist, variant, run, durableVars, loggedIn, todo, idx, processed,
                   buffer, b2Counters, crawlVars, navLog, flushHist, runHist,
                   appended, abortCause>>

\* main ends without the append of the leftover new URLs
B2DropLeftover ==
    /\ variant = "b2" /\ pc = "append"
    /\ Goto("done")
    /\ UNCHANGED <<unitVars, crawlHist, variant, run, durableVars, loggedIn, todo, idx, processed,
                   buffer, b2Counters, crawlVars, navLog, flushHist, runHist,
                   appended, abortCause>>

\* the leftover new URLs are appended to the known-URL file
B2AppendLeftover ==
    /\ variant = "b2" /\ pc = "append"
    /\ knownFile' = IF batch_new /= <<>> THEN AppendLines(knownFile, batch_new)
                    ELSE knownFile
    /\ appended' = appended \cup Range(batch_new)
    /\ Goto("done")
    /\ UNCHANGED <<unitVars, crawlHist, variant, run, resultFile, loggedIn, todo, idx, processed,
                   buffer, b2Counters, crawlVars, navLog, flushHist, runHist,
                   abortCause>>

----------------------------------------------------------------------------
(* ws: crawl_site, process_product_page and main *)

\* the entries process_product_page appends for the options of the page's
\* dropdown: none for an option whose selection failed, `first` on the
\* first entry appended
RECURSIVE WsOptionEntries(_, _, _, _, _)
WsOptionEntries(details, opts, selected, pricing, first) ==
    IF opts = <<>> THEN <<>>
    ELSE IF ~Head(selected)
    THEN WsOptionEntries(details, Tail(opts), Tail(selected), Tail(pricing), first)
    ELSE <<[product |-> details, option |-> Head(opts),
            qtys |-> Head(pricing).qtys, prices |-> Head(pricing).prices,
            first |-> first]>>
         \o WsOptionEntries(details, Tail(opts), Tail(selected), Tail(pricing), FALSE)

\* the entries process_product_page appends for a page it has loaded
WsEntries(url, selected, pricing) ==
    LET details == <<ProductName(url), url, ProductImage(url)>>
    IN  IF Options(url) /= <<>>
        THEN WsOptionEntries(details, Options(url), selected, pricing, TRUE)
        ELSE <<[product |-> details, option |-> "N/A",
                qtys |-> pricing[1].qtys, prices |-> pricing[1].prices,
                first |-> TRUE]>>

\* process_product_page(driver, url, option_data, ...)
WsProcessProductPage(url, phase) ==
    \E loginOk \in BOOLEAN, loads \in BOOLEAN,
       selected \in [1..Len(Options(url)) -> BOOLEAN],
       pricing \in [1..(IF Options(url) = <<>> THEN 1 ELSE Len(Options(url)))
                      -> WsPricing] :
        IF ~loggedIn /\ ~loginOk
        THEN UNCHANGED <<loggedIn, navLog, buffer>>
        ELSE /\ loggedIn' = TRUE
             /\ navLog' = Append(navLog, [phase |-> phase, url |-> url])
             /\ buffer' = IF loads THEN buffer \o WsEntries(url, selected, pricing)
                          ELSE buffer

\* the known URLs are read; main goes to their loop when there are some
WsStart ==
    /\ variant = "ws" /\ pc = "start"
    /\ processed' = ReadKnownUrls(knownFile)
    /\ IF ReadKnownUrls(knownFile) /= {}
       THEN /\ \E order \in Orders(ReadKnownUrls(knownFile)) : todo' = order
            /\ Goto("known")
       ELSE /\ todo' = <<>>
            /\ Goto("crawlStart")
    /\ UNCHANGED <<unitVars, crawlHist, variant, run, durableVars, loggedIn, idx, buffer, b2Counters,
                   crawlVars, navLog, flushHist, runHist, appended, abortCause>>

\* one iteration of the loop over the known product URLs
WsProcessKnown ==
    /\ variant = "ws" /\ pc = "known" /\ todo /= <<>>
    /\ WsProcessProductPage(Head(todo), "known")
    /\ todo' = Tail(todo)
    /\ idx' = idx + 1
    /\ IF (idx + 1) % SaveEvery = 0 THEN Flush("known") ELSE Goto("known")
    /\ UNCHANGED <<unitVars, crawlHist, variant, run, durableVars, processed, b2Counters, crawlVars,
                   flushHist, runHist, appended, abortCause>>

\* after the loop: the CSV is saved
WsKnownDone ==
    /\ variant = "ws" /\ pc = "known" /\ todo = <<>>
    /\ Flush("crawlStart")
    /\ UNCHANGED <<unitVars, crawlHist, variant, run, durableVars, loggedIn, todo, idx, processed,
                   buffer, b2Counters, crawlVars, navLog, flushHist, runHist,
                   appended, abortCause>>

\* crawl_site(driver, BASE_URL, skip_urls=known_urls) up to its loop
WsCrawlStart ==
    /\ variant = "ws" /\ pc = "crawlStart"
    /\ already' = processed
    /\ visited' = {}
    /\ product_urls' = {}
    /\ to_visit' = <<Base>>
    /\ enqueued' = <<[url |-> Base, d |-> 0]>>
    /\ dequeued' = <<>>
    /\ Goto("crawl")
    /\ UNCHANGED <<unitVars, variant, run, durableVars, loggedIn, todo, idx, processed,
                   buffer, b2Counters, navLog, flushHist, runHist, appended,
                   abortCause>>

\* one iteration of the crawl loop
WsCrawlStep ==
    /\ variant = "ws" /\ pc = "crawl"
    /\ to_visit /= <<>> /\ Cardinality(visited) < MaxPages
    /\ LET current_url == Head(to_visit) IN
       IF current_url \in visited
       THEN /\ to_visit' = Tail(to_visit)
            /\ UNCHANGED <<visited, product_urls, navLog>>
       ELSE IF \/ WsExcluded(current_url)
               \/ EndsWithExt(current_url)
               \/ HasToken(current_url, DisplayTokens)
       THEN /\ to_visit' = Tail(to_visit)
            /\ visited' = visited \cup {current_url}
            /\ UNCHANGED <<product_urls, navLog>>
       ELSE /\ navLog' = Append(navLog, [phase |-> "crawl", url |-> current_url])
            /\ \E loads \in BOOLEAN :
                IF loads
                THEN /\ visited' = visited \cup {current_url}
                     /\ product_urls' =
                           IF WsProductFound(current_url, already)
                           THEN product_urls \cup {current_url} ELSE product_urls
                     /\ to_visit' =
                           IF \/ HasToken(current_url, NewReviewTokens)
                              \/ HasToken(current_url, DisplayTokens)
                           THEN Tail(to_visit)
                           ELSE Tail(to_visit)
                                \o WsNewLinks(Links(current_url),
                                              visited \cup {current_url}, already)
                ELSE /\ to_visit' = Tail(to_visit)
                     /\ UNCHANGED <<visited, product_urls>>
    /\ CrawlHistory
    /\ UNCHANGED <<unitVars, variant, run, pc, durableVars, loggedIn, todo, idx, processed,
                   buffer, b2Counters, already, flushRet, flushHist, runHist,
                   appended, abortCause>>

\* the crawl loop ends; main filters the known URLs out of the result and
\* appends the new product URLs to the known-URL file
WsCrawlReturn ==
    /\ variant = "ws" /\ pc = "crawl"
    /\ to_visit = <<>> \/ Cardinality(visited) >= MaxPages
    /\ \E order \in Orders(product_urls) :
        LET new_product_urls == SelectSeq(order, LAMBDA u : u \notin processed)
        IN  /\ todo' = new_product_urls
            /\ knownFile' = IF new_product_urls /= <<>>
                            THEN AppendLines(knownFile, new_product_urls)
                            ELSE knownFile
            /\ appended' = appended \cup Range(new_product_urls)
    /\ idx' = 0
    /\ Goto("new")
    /\ UNCHANGED <<unitVars, crawlHist, variant, run, resultFile, loggedIn, processed, buffer,
                   b2Counters, crawlVars, navLog, flushHist, runHist, abortCause>>

\* one iteration of the loop over the new product URLs
WsProcessNew ==
    /\ variant = "ws" /\ pc = "new" /\ todo /= <<>>
    /\ WsProcessProductPage(Head(todo), "new")
    /\ todo' = Tail(todo)
    /\ idx' = idx + 1
    /\ IF (idx + 1) % SaveEvery = 0 THEN Flush("new") ELSE Goto("new")
    /\ UNCHANGED <<unitVars, crawlHist, variant, run, durableVars, processed, b2Counters, crawlVars,
                   flushHist, runHist, appended, abortCause>>

\* after the loop: the final save
WsNewDone ==
    /\ variant = "ws" /\ pc = "new" /\ todo = <<>>
    /\ Flush("done")
    /\ UNCHANGED <<unitVars, crawlHist, variant, run, durableVars, loggedIn, todo, idx, processed,
                   buffer, b2Counters, crawlVars, navLog, flushHist, runHist,
                   appended, abortCause>>

----------------------------------------------------------------------------
(* One product page: the combinations of its attributes, the price read    *)
(* behind each, the records appended, and the flushes that follow          *)

\* the option lists get_attribute_options (b2) / the dropdowns (ws) give for
\* a product page: attributes in page order, each with its option labels
PageAttrs ==
    { <<>>,
      <<[name |-> "Size", vals |-> <<"S", "M">>]>>,
      <<[name |-> "Size", vals |-> <<"S", "M">>],
        [name |-> "Color", vals |-> <<"Red">>]>>,
      <<[name |-> "Size", vals |-> <<"S">>],
        [name |-> "Color", vals |-> <<"Red", "Blue">>]>>,
      <<[name |-> "Size", vals |-> <<"S", "M">>],
        [name |-> "Color", vals |-> <<"Red", "Blue">>]>>,
      <<[name |-> "Size", vals |-> <<"S", "M">>],
        [name |-> "Color", vals |-> <<"Red">>],
        [name |-> "Finish", vals |-> <<"Matte", "Gloss">>]>> }

\* ws: the dropdowns of a page, among them a page with two dropdowns of
\* which one has no valid option (valid_opts is empty)
WsPageAttrs ==
    PageAttrs \cup { <<[name |-> "Size", vals |-> <<"S", "M">>],
                       [name |-> "Color", vals |-> <<>>]>> }

\* itertools.product(*lists): the last list varies fastest
RECURSIVE Product(_)
Product(lists) ==
    IF lists = <<>> THEN << <<>> >>
    ELSE LET rest == Product(Tail(lists))
         IN  Concat([i \in 1..Len(Head(lists)) |->
                        [j \in 1..Len(rest) |-> <<Head(lists)[i]>> \o rest[j]]])

\* the combinations the loop of a page with these attributes iterates; the
\* page without attributes has the one empty combination
Combinations(as) == Product([i \in 1..Len(as) |-> as[i].vals])

\* sep.join(strs)
RECURSIVE Join(_, _)
Join(strs, sep) ==
    IF strs = <<>> THEN ""
    ELSE IF Len(strs) = 1 THEN strs[1]
    ELSE strs[1] \o sep \o Join(Tail(strs), sep)

\* b2 main: opt_str of a combination
B2OptStr(as, combo) ==
    Join([i \in 1..Len(as) |-> as[i].name \o ": " \o combo[i]], "; ")

\* ws process_product_page: option_combo_text, opt_text, or "N/A" when the
\* page has no dropdown
WsOptionComboText(as, combo) == IF as = <<>> THEN "N/A" ELSE Join(combo, ", ")

\* b2 parse_price_table as main sees it: a number, None, or the ValueError
\* of float() that the function does not catch
B2PriceReads == B2Prices \cup {"ValueError"}

\* b2 main, from get_attribute_options to the end of the combination loop:
\* the rows appended to all_rows and whether an exception ended the loop;
\* reads[i] is what parse_price_table gives for combination i
B2ScrapeRows(url, as, reads) ==
    LET combos == Combinations(as)
        strs == [i \in 1..Len(combos) |-> B2OptStr(as, combos[i])]
        fresh == {i \in 1..Len(combos) : \A j \in 1..(i - 1) : strs[j] /= strs[i]}
        raises == {i \in fresh : reads[i] = "ValueError"}
        stop == IF raises = {} THEN Len(combos) + 1 ELSE Min(raises)
        done == SelectSeq([i \in 1..Len(combos) |-> i],
                          LAMBDA i : i \in fresh /\ i < stop)
    IN  [rows |-> [k \in 1..Len(done) |->
                     <<ProductName(url), url, ProductImage(url), strs[done[k]],
                       B2PriceCell(reads[done[k]])>>],
         raised |-> raises /= {}]

\* ws process_product_page, from the dropdowns to the end of the loops
WsScrapeEntries(url, as, selected, pricing) ==
    LET details == <<ProductName(url), url, ProductImage(url)>>
        combos == Combinations(as)
    IN  IF as = <<>>
        THEN <<[product |-> details, option |-> "N/A",
                qtys |-> pricing[1].qtys, prices |-> pricing[1].prices,
                first |-> TRUE]>>
        ELSE WsOptionEntries(details,
                 [i \in 1..Len(combos) |-> WsOptionComboText(as, combos[i])],
                 selected, pricing, TRUE)

\* what a price read gave, for the history
B2ReadKind(read) ==
    IF read = "ValueError" THEN "raise" ELSE IF read = "None" THEN "absent" ELSE "price"
WsReadKind(pricing) == IF pricing.prices = <<>> THEN "absent" ELSE "price"
SdReadKind(t) == IF t = SdNoTable THEN "absent" ELSE "price"

\* a product page has loaded in a logged-in session; nothing is buffered yet
InitPage ==
    /\ variant \in Variants
    /\ run = 1
    /\ knownFile = <<>>
    /\ resultFile = <<>>
    /\ pc = "page"
    /\ loggedIn = TRUE
    /\ todo = <<P1>>
    /\ idx = 0
    /\ processed = {}
    /\ buffer = <<>>
    /\ product_count = 0
    /\ new_count = 0
    /\ batch_new = <<>>
    /\ already = {}
    /\ visited = {}
    /\ product_urls = {}
    /\ to_visit = <<>>
    /\ flushRet = "none"
    /\ navLog = <<>>
    /\ startKnown = {}
    /\ lastSnapshot = <<>>
    /\ flushedOnce = FALSE
    /\ flushedRun = FALSE
    /\ prevFile = <<>>
    /\ prevFlushed = FALSE
    /\ appended = {}
    /\ abortCause = "none"
    /\ attrs \in (IF variant = "sd" THEN {<<>>}
                  ELSE IF variant = "b2" THEN PageAttrs ELSE WsPageAttrs)
    /\ selLog = <<>>
    /\ priceLog = <<>>
    /\ priceText = <<>>
    /\ parsed = NotParsed
    /\ href_list = <<>>
    /\ site = "shop"
    /\ caller = "none"
    /\ loadLog = <<>>
    /\ enqueued = <<>>
    /\ dequeued = <<>>
    /\ CallIdle

\* sd main: the price table of the loaded page is parsed, the product is
\* appended when the table is there, and the CSV is saved
SdScrapePage ==
    /\ variant = "sd" /\ pc = "page"
    /\ \E t \in SdTables :
        /\ buffer' = buffer \o SdEntry(Head(todo), t)
        /\ processed' = IF SdEntry(Head(todo), t) /= <<>>
                        THEN processed \cup {Head(todo)} ELSE processed
        /\ selLog' = <<TRUE>>
        /\ priceLog' = <<SdReadKind(t)>>
    /\ todo' = Tail(todo)
    /\ Flush("saved")
    /\ UNCHANGED <<variant, run, durableVars, loggedIn, idx,
                   b2Counters, crawlVars, navLog, flushHist, runHist, appended,
                   abortCause, attrs, parseVars, linkVars, loadVars, callVars, crawlHist>>

\* b2 main: the combinations of the loaded page are selected and priced,
\* then write_csv; a ValueError of a price read leaves main
B2ScrapePage ==
    /\ variant = "b2" /\ pc = "page"
    /\ \E selected \in [1..Len(Combinations(attrs)) -> BOOLEAN],
          reads \in [1..Len(Combinations(attrs)) -> B2PriceReads] :
        LET res == B2ScrapeRows(Head(todo), attrs, reads) IN
        /\ buffer' = buffer \o res.rows
        /\ selLog' = selected
        /\ priceLog' = [i \in 1..Len(reads) |-> B2ReadKind(reads[i])]
        /\ IF res.raised
           THEN Abort("price") /\ UNCHANGED product_count
           ELSE /\ product_count' = product_count + 1
                /\ Flush("saved")
                /\ UNCHANGED abortCause
    /\ todo' = Tail(todo)
    /\ UNCHANGED <<variant, run, durableVars, loggedIn, idx, processed,
                   new_count, batch_new, crawlVars, navLog, flushHist, runHist,
                   appended, attrs, parseVars, linkVars, loadVars, callVars, crawlHist>>

\* ws process_product_page on the loaded page, then save_csv
WsScrapePage ==
    /\ variant = "ws" /\ pc = "page"
    /\ \E selected \in [1..Len(Combinations(attrs)) -> BOOLEAN],
          pricing \in [1..Len(Combinations(attrs)) -> WsPricing] :
        /\ attrs = <<>> => selected[1]
        /\ buffer' = buffer \o WsScrapeEntries(Head(todo), attrs, selected, pricing)
        /\ selLog' = selected
        /\ priceLog' = [i \in 1..Len(pricing) |-> WsReadKind(pricing[i])]
    /\ todo' = Tail(todo)
    /\ Flush("saved")
    /\ UNCHANGED <<variant, run, durableVars, loggedIn, idx, processed,
                   b2Counters, crawlVars, navLog, flushHist, runHist, appended,
                   abortCause, attrs, parseVars, linkVars, loadVars, callVars, crawlHist>>

\* the flush is called again with nothing appended since the last one
\* (the final save behind an interim save)
FlushAgain ==
    /\ pc = "saved"
    /\ Flush("done")
    /\ UNCHANGED <<unitVars, crawlHist, variant, run, durableVars, loggedIn, todo, idx,
                   processed, buffer, b2Counters, crawlVars, navLog, flushHist,
                   runHist, appended, abortCause>>

NextPage ==
    \/ SdScrapePage \/ B2ScrapePage \/ WsScrapePage
    \/ FlushOpen \/ FlushWrite \/ FlushAgain

\* the extraction of one loaded product page and two flushes behind it
SpecPage == InitPage /\ [][NextPage]_vars

----------------------------------------------------------------------------
(* b2 parse_price_table on the text of the subtotal element; a text is the *)
(* sequence of its characters                                              *)

\* the longest text made of the characters of TextChars
MaxTextLen == 3

Digits == {"0", "1", "2", "3", "4", "5"}
TextChars == {"$", "1", "0", ",", ".", "T", " "}

\* the texts the subtotal element can show
PriceTexts ==
    UNION {[1..n -> TextChars] : n \in 0..MaxTextLen}
        \cup { <<"$", "1", ",", "2", "3", "4", ".", "5", "0">>,
               <<"T", "B", "D">>,
               <<"$", "1", ".", "2", ".", "3">>,
               <<"$", "1", "2", ".", "5", "0", " ", "e", "a", ".">> }

RECURSIVE StripLeadingZeros(_)
StripLeadingZeros(ds) ==
    IF ds /= <<>> /\ Head(ds) = "0" THEN StripLeadingZeros(Tail(ds)) ELSE ds

RECURSIVE StripTrailingZeros(_)
StripTrailingZeros(ds) ==
    IF ds /= <<>> /\ ds[Len(ds)] = "0"
    THEN StripTrailingZeros(SubSeq(ds, 1, Len(ds) - 1)) ELSE ds

\* float(num) for a string of digits and dots: the value by its integer and
\* fraction digits, or ValueError when num is not a decimal literal
Float(num) ==
    LET dots == {i \in 1..Len(num) : num[i] = "."}
        dot == IF dots = {} THEN Len(num) + 1 ELSE Min(dots)
    IN  IF Cardinality(dots) > 1 \/ Len(num) = Cardinality(dots)
        THEN [kind |-> "ValueError", int |-> <<>>, frac |-> <<>>]
        ELSE [kind |-> "float",
              int |-> StripLeadingZeros(SubSeq(num, 1, dot - 1)),
              frac |-> StripTrailingZeros(SubSeq(num, dot + 1, Len(num)))]

\* parse_price_table: None when no "$" shows within the wait (the
\* TimeoutException is caught), else float(num) if num else None
B2ParsePriceTable(text) ==
    LET num == SelectSeq(text, LAMBDA c : c \in Digits \cup {"."})
    IN  IF "$" \notin Range(text) \/ num = <<>>
        THEN [kind |-> "None", int |-> <<>>, frac |-> <<>>]
        ELSE Float(num)

\* the subtotal element of a loaded product page shows some text
InitPrice ==
    /\ variant = "b2"
    /\ run = 1
    /\ knownFile = <<>>
    /\ resultFile = <<>>
    /\ pc = "price"
    /\ loggedIn = TRUE
    /\ todo = <<>>
    /\ idx = 0
    /\ processed = {}
    /\ buffer = <<>>
    /\ product_count = 0
    /\ new_count = 0
    /\ batch_new = <<>>
    /\ already = {}
    /\ visited = {}
    /\ product_urls = {}
    /\ to_visit = <<>>
    /\ flushRet = "none"
    /\ navLog = <<>>
    /\ startKnown = {}
    /\ lastSnapshot = <<>>
    /\ flushedOnce = FALSE
    /\ flushedRun = FALSE
    /\ prevFile = <<>>
    /\ prevFlushed = FALSE
    /\ appended = {}
    /\ abortCause = "none"
    /\ attrs = <<>>
    /\ selLog = <<>>
    /\ priceLog = <<>>
    /\ priceText \in PriceTexts
    /\ parsed = NotParsed
    /\ href_list = <<>>
    /\ site = "shop"
    /\ caller = "none"
    /\ loadLog = <<>>
    /\ enqueued = <<>>
    /\ dequeued = <<>>
    /\ CallIdle

\* price = parse_price_table(driver) in main; an exception leaves main
B2PriceRead ==
    /\ variant = "b2" /\ pc = "price"
    /\ parsed' = B2ParsePriceTable(priceText)
    /\ IF B2ParsePriceTable(priceText).kind = "ValueError"
       THEN Abort("price")
       ELSE Goto("priced") /\ UNCHANGED abortCause
    /\ UNCHANGED <<variant, run, durableVars, loggedIn, todo, idx, processed,
                   buffer, b2Counters, crawlVars, navLog, flushHist, runHist,
                   appended, pageVars, priceText, linkVars, loadVars, callVars, crawlHist>>

\* str(price) as csv.writer puts a float into a cell: the characters of its
\* digits; the empty text for ""
FloatText(p) ==
    (IF p.int = <<>> THEN <<"0">> ELSE p.int) \o <<".">>
        \o (IF p.frac = <<>> THEN <<"0">> ELSE p.frac)

\* b2 main: `price or ""` for what parse_price_table returned, as the text
\* of the cell; None and the number zero are false
B2PriceOrEmpty(p) ==
    IF p.kind = "None" \/ (p.int = <<>> /\ p.frac = <<>>) THEN <<>>
    ELSE FloatText(p)

\* all_rows.append([name, url, img, "", price or ""]) behind the price read
B2AppendPriceRow ==
    /\ variant = "b2" /\ pc = "priced"
    /\ buffer' = Append(buffer, <<ProductName(P1), P1, ProductImage(P1), "",
                                  B2PriceOrEmpty(parsed)>>)
    /\ Goto("rowAppended")
    /\ UNCHANGED <<variant, run, durableVars, loggedIn, todo, idx, processed,
                   b2Counters, crawlVars, navLog, flushHist, runHist, abortCause,
                   appended, pageVars, parseVars, linkVars, loadVars, callVars, crawlHist>>

NextPrice == B2PriceRead \/ B2AppendPriceRow

\* one price read of b2 and the row appended for it
SpecPrice == InitPrice /\ [][NextPrice]_vars

----------------------------------------------------------------------------
(* The link loop of crawl_site on a page that shows the same address once  *)
(* without and once with a fragment                                        *)

\* hrefs of the crawled domain without a fragment
SameDomainHrefs ==
    {Base, PageA, P1, P2, CartCheckout, Pdf, PdfQuery,
     <<"H", "/p1", "?x=1">>, <<"H", "/a", "?display=list">>,
     <<"H", "/f", ".PDF">>, <<"H", "/a", "?a=1&navCode=2">>}

\* the <a> elements of the page: an href and the same href with a fragment,
\* in either document order
FragmentPairs ==
    UNION {{<<h, h \o <<f>>>>, <<h \o <<f>>, h>>} :
              h \in SameDomainHrefs, f \in FragTokens}

\* crawl_site has loaded a page and comes to its link loop
InitLinks ==
    /\ variant \in Variants
    /\ run = 1
    /\ knownFile = <<>>
    /\ resultFile = <<>>
    /\ pc = "links"
    /\ loggedIn = TRUE
    /\ todo = <<>>
    /\ idx = 0
    /\ processed = {}
    /\ buffer = <<>>
    /\ product_count = 0
    /\ new_count = 0
    /\ batch_new = <<>>
    /\ already \in {{}, {P2}}
    /\ visited \in {{Base}, {Base, P1}}
    /\ product_urls = {}
    /\ to_visit = <<>>
    /\ flushRet = "none"
    /\ navLog = <<>>
    /\ startKnown = {}
    /\ lastSnapshot = <<>>
    /\ flushedOnce = FALSE
    /\ flushedRun = FALSE
    /\ prevFile = <<>>
    /\ prevFlushed = FALSE
    /\ appended = {}
    /\ abortCause = "none"
    /\ attrs = <<>>
    /\ selLog = <<>>
    /\ priceLog = <<>>
    /\ priceText = <<>>
    /\ parsed = NotParsed
    /\ href_list \in FragmentPairs
    /\ site = "shop"
    /\ caller = "none"
    /\ loadLog = <<>>
    /\ enqueued = <<>>
    /\ dequeued = <<>>
    /\ CallIdle

\* the link loop of sd, b2 and ws crawl_site over the hrefs of the page
SdLinkLoop ==
    /\ variant = "sd" /\ pc = "links"
    /\ to_visit' = to_visit \o SdNewLinks(href_list, visited, already)
    /\ Goto("linked")
    /\ UNCHANGED <<unitVars, crawlHist, variant, run, durableVars, loggedIn, todo, idx,
                   processed, buffer, b2Counters, already, visited, product_urls,
                   navLog, flushHist, runHist, appended, abortCause>>

B2LinkLoop ==
    /\ variant = "b2" /\ pc = "links"
    /\ to_visit' = to_visit \o B2NewLinks(href_list, visited, already)
    /\ Goto("linked")
    /\ UNCHANGED <<unitVars, crawlHist, variant, run, durableVars, loggedIn, todo, idx,
                   processed, buffer, b2Counters, already, visited, product_urls,
                   navLog, flushHist, runHist, appended, abortCause>>

WsLinkLoop ==
    /\ variant = "ws" /\ pc = "links"
    /\ to_visit' = to_visit \o WsNewLinks(href_list, visited, already)
    /\ Goto("linked")
    /\ UNCHANGED <<unitVars, crawlHist, variant, run, durableVars, loggedIn, todo, idx,
                   processed, buffer, b2Counters, already, visited, product_urls,
                   navLog, flushHist, runHist, appended, abortCause>>

NextLinks == SdLinkLoop \/ B2LinkLoop \/ WsLinkLoop

\* one link loop of a crawl
SpecLinks == InitLinks /\ [][NextLinks]_vars

----------------------------------------------------------------------------
(* The crawl loop alone, on the shop and on the endless site, from the     *)
(* call of crawl_site to its return                                        *)

\* crawl_site has been called and comes to its loop
InitCrawl ==
    /\ variant \in Variants
    /\ run = 1
    /\ already \in {{}, {P1}}
    /\ knownFile = (IF already = {} THEN <<>> ELSE WriteLines(<<P1>>))
    /\ resultFile = <<>>
    /\ pc = "crawl"
    /\ loggedIn = TRUE
    /\ todo = <<>>
    /\ idx = 0
    /\ processed = already
    /\ buffer = <<>>
    /\ product_count = 0
    /\ new_count = 0
    /\ batch_new = <<>>
    /\ visited = {}
    /\ product_urls = {}
    /\ to_visit = <<Base>>
    /\ flushRet = "none"
    /\ navLog = <<>>
    /\ startKnown = already
    /\ lastSnapshot = <<>>
    /\ flushedOnce = FALSE
    /\ flushedRun = FALSE
    /\ prevFile = <<>>
    /\ prevFlushed = FALSE
    /\ appended = {}
    /\ abortCause = "none"
    /\ attrs = <<>>
    /\ selLog = <<>>
    /\ priceLog = <<>>
    /\ priceText = <<>>
    /\ parsed = NotParsed
    /\ href_list = <<>>
    /\ site \in {"shop", "endless"}
    /\ caller = "none"
    /\ loadLog = <<>>
    /\ enqueued = <<[url |-> Base, d |-> 0]>>
    /\ dequeued = <<>>
    /\ CallIdle

NextCrawl ==
    \/ SdCrawlStep \/ SdCrawlReturn
    \/ B2CrawlStep \/ B2CrawlReturn
    \/ WsCrawlStep \/ WsCrawlReturn

\* one call of crawl_site in a process that keeps running: a page load
\* returns or raises within its timeout, and the loop goes on
SpecCrawl == InitCrawl /\ [][NextCrawl]_vars /\ WF_vars(NextCrawl)

----------------------------------------------------------------------------
(* One page load: load_page_with_retry of b2 and the single driver.get of  *)
(* sd and ws, attempt by attempt, for each place that loads a page         *)

\* the places that load a page: b2 login, the loops of main over the known
\* and the new URLs, crawl_site, and ws process_product_page
Callers(v) ==
    IF v = "b2" THEN {"login", "known", "crawl", "new"}
    ELSE IF v = "sd" THEN {"known", "crawl", "new"}
    ELSE {"crawl", "page"}

\* the driver.get calls a page load has issued and those that raised
Gets(log) == Len(SelectSeq(log, LAMBDA e : e /= "sleep"))
Fails(log) == Len(SelectSeq(log, LAMBDA e : e \notin {"sleep", "ok"}))

\* a caller is about to load the page of a URL
InitLoad ==
    /\ variant \in Variants
    /\ run = 1
    /\ knownFile = <<>>
    /\ resultFile = <<>>
    /\ pc = "load"
    /\ caller \in Callers(variant)
    /\ loggedIn = (caller /= "login")
    /\ todo \in {<<Base>>, <<PageA>>, <<P1>>, <<P2>>}
    /\ idx = 0
    /\ processed = {}
    /\ buffer = <<>>
    /\ product_count = 0
    /\ new_count = 0
    /\ batch_new = <<>>
    /\ already = {}
    /\ visited = {}
    /\ product_urls = {}
    /\ to_visit = <<>>
    /\ flushRet = "none"
    /\ navLog = <<>>
    /\ startKnown = {}
    /\ lastSnapshot = <<>>
    /\ flushedOnce = FALSE
    /\ flushedRun = FALSE
    /\ prevFile = <<>>
    /\ prevFlushed = FALSE
    /\ appended = {}
    /\ abortCause = "none"
    /\ attrs = <<>>
    /\ selLog = <<>>
    /\ priceLog = <<>>
    /\ priceText = <<>>
    /\ parsed = NotParsed
    /\ href_list = <<>>
    /\ site = "shop"
    /\ loadLog = <<>>
    /\ enqueued = <<>>
    /\ dequeued = <<>>
    /\ CallIdle

\* the iteration that goes on to a further attempt behind the last one
B2LoadAttemptOneMore ==
    /\ variant = "b2" /\ pc = "load"
    /\ \E ok \in BOOLEAN :
        IF ok
        THEN /\ loadLog' = Append(loadLog, "ok")
             /\ Goto("loaded")
             /\ UNCHANGED abortCause
        ELSE IF Gets(loadLog) + 1 <= MAX_RETRIES
        THEN /\ loadLog' = loadLog \o <<"WebDriverException", "sleep">>
             /\ Goto("load")
             /\ UNCHANGED abortCause
        ELSE /\ loadLog' = Append(loadLog, "WebDriverException")
             /\ IF caller = "crawl"
                THEN Goto("gaveUp") /\ UNCHANGED abortCause
                ELSE Abort("load")
    /\ UNCHANGED <<variant, run, durableVars, loggedIn, todo, idx, processed,
                   buffer, b2Counters, crawlVars, navLog, flushHist, runHist,
                   appended, pageVars, parseVars, linkVars, caller, callVars, crawlHist>>

\* one iteration of the loop of load_page_with_retry: driver.get and the
\* wait for the full load return, or one of them raises WebDriverException;
\* crawl_site catches the SystemExit, login and main do not
B2LoadAttempt ==
    /\ variant = "b2" /\ pc = "load"
    /\ \E ok \in BOOLEAN :
        IF ok
        THEN /\ loadLog' = Append(loadLog, "ok")
             /\ Goto("loaded")
             /\ UNCHANGED abortCause
        ELSE IF Gets(loadLog) + 1 < MAX_RETRIES
        THEN /\ loadLog' = loadLog \o <<"WebDriverException", "sleep">>
             /\ Goto("load")
             /\ UNCHANGED abortCause
        ELSE /\ loadLog' = Append(loadLog, "WebDriverException")
             /\ IF caller = "crawl"
                THEN Goto("gaveUp") /\ UNCHANGED abortCause
                ELSE Abort("load")
    /\ UNCHANGED <<variant, run, durableVars, loggedIn, todo, idx, processed,
                   buffer, b2Counters, crawlVars, navLog, flushHist, runHist,
                   appended, pageVars, parseVars, linkVars, caller, callVars, crawlHist>>

\* sd: driver.get(url) in try / except Exception: continue
SdLoad ==
    /\ variant = "sd" /\ pc = "load"
    /\ \E ok \in BOOLEAN :
        /\ loadLog' = Append(loadLog, IF ok THEN "ok" ELSE "Exception")
        /\ Goto(IF ok THEN "loaded" ELSE "gaveUp")
    /\ UNCHANGED <<variant, run, durableVars, loggedIn, todo, idx, processed,
                   buffer, b2Counters, crawlVars, navLog, flushHist, runHist,
                   appended, abortCause, pageVars, parseVars, linkVars, caller, callVars, crawlHist>>

\* ws: driver.get(url) in try / except Exception: continue (crawl_site) or
\* return (process_product_page)
WsLoad ==
    /\ variant = "ws" /\ pc = "load"
    /\ \E ok \in BOOLEAN :
        /\ loadLog' = Append(loadLog, IF ok THEN "ok" ELSE "Exception")
        /\ Goto(IF ok THEN "loaded" ELSE "gaveUp")
    /\ UNCHANGED <<variant, run, durableVars, loggedIn, todo, idx, processed,
                   buffer, b2Counters, crawlVars, navLog, flushHist, runHist,
                   appended, abortCause, pageVars, parseVars, linkVars, caller, callVars, crawlHist>>

NextLoad == B2LoadAttempt \/ SdLoad \/ WsLoad

\* one page load of a scraper
SpecLoad == InitLoad /\ [][NextLoad]_vars

----------------------------------------------------------------------------
(* One call of a function of the driver's page: the process holds a page   *)
(* and calls the function on it                                            *)

\* the state of a process that has loaded a page and is at position p, the
\* buffer and the flush apart
DetachedMemory(p) ==
    /\ run = 1
    /\ knownFile = <<>>
    /\ resultFile = <<>>
    /\ pc = p
    /\ loggedIn = TRUE
    /\ todo = <<>>
    /\ idx = 0
    /\ processed = {}
    /\ product_count = 0
    /\ new_count = 0
    /\ batch_new = <<>>
    /\ already = {}
    /\ visited = {}
    /\ product_urls = {}
    /\ to_visit = <<>>
    /\ navLog = <<>>
    /\ startKnown = {}
    /\ lastSnapshot = <<>>
    /\ flushedOnce = FALSE
    /\ flushedRun = FALSE
    /\ prevFile = <<>>
    /\ prevFlushed = FALSE
    /\ appended = {}
    /\ abortCause = "none"
    /\ attrs = <<>>
    /\ selLog = <<>>
    /\ priceLog = <<>>
    /\ priceText = <<>>
    /\ parsed = NotParsed
    /\ href_list = <<>>
    /\ site = "shop"
    /\ caller = "none"
    /\ loadLog = <<>>
    /\ enqueued = <<>>
    /\ dequeued = <<>>

\* the same with an empty buffer and no flush under way
Detached(p) ==
    /\ DetachedMemory(p)
    /\ buffer = <<>>
    /\ flushRet = "none"

\* what a call leaves alone, the page and the position of its loop apart
CallFrame ==
    UNCHANGED <<pageVars, parseVars, linkVars, loadVars, crawlHist, variant, run,
                durableVars, loggedIn, todo, processed, buffer, b2Counters,
                crawlVars, flushRet, navLog, flushHist, runHist, appended,
                abortCause>>

----------------------------------------------------------------------------
(* is_product_page *)

\* the elements is_product_page waits for, in the order of its waits; in ws
\* the first three are the exclusion ids
SdMarkers == <<".product-detail-container", "title-breadcrumb">>
B2Markers == <<"item-view-title", "_subtotal_">>
WsExclusionIds == <<"facet-browse", "cms-landing-page", "home-page">>
WsView == "ProductDetails.Full.View"

\* the elements the extraction of a ws product page reads the title and the
\* price from
WsTitle == "product-details-full-content-header-title"
WsPrice == "product-price"

\* the elements a page can carry, by scraper
PageElements(v) ==
    IF v = "sd" THEN Range(SdMarkers)
    ELSE IF v = "b2" THEN Range(B2Markers)
    ELSE Range(WsExclusionIds) \cup {WsView, WsTitle, WsPrice}

\* driver.current_url of the page under classification
CurrentUrls == {P1, PdfQuery, <<"H", "/p1", "/newReview">>, <<"H", "/p1", "?display=list">>}

\* WebDriverWait(driver, t).until(presence_of_element_located(el)) for the
\* elements of els in turn, up to the first that does not appear in its wait
\* budget
RECURSIVE WaitEach(_, _)
WaitEach(els, present) ==
    IF els = <<>> THEN <<>>
    ELSE IF Head(els) \in present
    THEN <<[el |-> Head(els), r |-> "found"]>> \o WaitEach(Tail(els), present)
    ELSE <<[el |-> Head(els), r |-> "TimeoutException"]>>

\* the waits of the ws exclusion loop: every id is waited for until one is found
RECURSIVE WaitAny(_, _)
WaitAny(els, present) ==
    IF els = <<>> THEN <<>>
    ELSE IF Head(els) \in present
    THEN <<[el |-> Head(els), r |-> "found"]>>
    ELSE <<[el |-> Head(els), r |-> "TimeoutException"]>> \o WaitAny(Tail(els), present)

\* every wait of the log has found its element
AllFound(log) == \A i \in 1..Len(log) : log[i].r = "found"

InitClassify ==
    /\ variant \in Variants
    /\ Detached("classify")
    /\ \E url \in CurrentUrls, present \in SUBSET PageElements(variant) :
          dom = [url |-> url, present |-> present]
    /\ driverLog = <<>>
    /\ returned = NotCalled

\* sd is_product_page: both waits in one try, except Exception
SdClassify ==
    /\ variant = "sd" /\ pc = "classify"
    /\ driverLog' = WaitEach(SdMarkers, dom.present)
    /\ returned' = IF AllFound(driverLog') THEN "True" ELSE "False"
    /\ Goto("classified")
    /\ UNCHANGED <<dom, idx>>
    /\ CallFrame

\* b2 is_product_page: both waits in one try, except TimeoutException
B2Classify ==
    /\ variant = "b2" /\ pc = "classify"
    /\ driverLog' = WaitEach(B2Markers, dom.present)
    /\ returned' = IF AllFound(driverLog') THEN "True" ELSE "False"
    /\ Goto("classified")
    /\ UNCHANGED <<dom, idx>>
    /\ CallFrame

\* ws is_product_page: the tests of the URL, the exclusion ids, the view
WsClassify ==
    /\ variant = "ws" /\ pc = "classify"
    /\ IF \/ HasToken(dom.url, QueryTokens)
          \/ HasToken(dom.url, NewReviewTokens)
          \/ HasToken(dom.url, DisplayTokens)
       THEN /\ driverLog' = <<>>
            /\ returned' = "False"
       ELSE LET excl == WaitAny(WsExclusionIds, dom.present)
            IN  IF \A i \in 1..Len(excl) : excl[i].r = "TimeoutException"
                THEN /\ driverLog' = excl \o WaitEach(<<WsView>>, dom.present)
                     /\ returned' = IF WsView \in dom.present
                                    THEN "True" ELSE "False"
                ELSE /\ driverLog' = excl
                     /\ returned' = "False"
    /\ Goto("classified")
    /\ UNCHANGED <<dom, idx>>
    /\ CallFrame

NextClassify == SdClassify \/ B2Classify \/ WsClassify

\* one call of is_product_page on a page
SpecClassify == InitClassify /\ [][NextClassify]_vars

----------------------------------------------------------------------------
(* b2 get_attribute_options: the selects of an attribute block *)

MaxSelects == 2

\* a select of the page: whether its button becomes clickable, when the list
\* it controls becomes visible after the click ("late": after the wait
\* budget; "never": the click opens nothing), and the labels of its options
SelectControls ==
    [clickable : BOOLEAN, list : {"visible", "late", "never"},
     opts : {<<"S">>, <<"S", "M">>}]

\* the sequences of at most n members of S
SeqsUpTo(S, n) == UNION {[1..k -> S] : k \in 0..n}

InitOptions ==
    /\ variant = "b2"
    /\ Detached("options")
    /\ \E selects \in SeqsUpTo(SelectControls, MaxSelects) :
          dom = [selects |-> selects, open |-> {}]
    /\ driverLog = <<>>
    /\ returned = <<>>

\* one iteration of `for sc in attr.find_elements(... "div._select_1un5z_155")`
B2EnumerateSelect ==
    /\ variant = "b2" /\ pc = "options" /\ idx < Len(dom.selects)
    /\ LET i == idx + 1
           sc == dom.selects[i]
       IN  /\ idx' = i
           /\ IF ~sc.clickable
              THEN /\ driverLog' = driverLog \o <<"TimeoutException">>
                   /\ UNCHANGED <<dom, returned>>
              ELSE IF sc.list = "visible"
              THEN /\ driverLog' = driverLog \o <<"click", "visible", "ESCAPE">>
                   /\ returned' = returned \o sc.opts
                   /\ dom' = dom
              ELSE /\ driverLog' = driverLog \o <<"click", "TimeoutException">>
                   /\ returned' = returned
                   /\ dom' = IF sc.list = "late"
                             THEN [dom EXCEPT !.open = @ \cup {i}] ELSE dom
    /\ Goto("options")
    /\ CallFrame

\* the loop has ended and the function returns
B2OptionsReturn ==
    /\ variant = "b2" /\ pc = "options" /\ idx = Len(dom.selects)
    /\ Goto("optionsDone")
    /\ UNCHANGED <<dom, idx, driverLog, returned>>
    /\ CallFrame

NextOptions == B2EnumerateSelect \/ B2OptionsReturn

\* one call of get_attribute_options on an attribute block of selects
SpecOptions == InitOptions /\ [][NextOptions]_vars

----------------------------------------------------------------------------
(* ws process_pricing_data *)

MaxRows == 2

Absent == "absent"

\* the cells of a <tr> of the pricing table's tbody
PricingRows == {<<>>, <<"QTY">>, <<"1 - 9", "$5.00">>, <<"10+", "$4.00">>}

\* the pricing elements of the page: the expander container with its
\* table rows, the live total element and the static price span
PricingPages ==
    [container : {TRUE}, rows : SeqsUpTo(PricingRows, MaxRows),
     total : {Absent, "$7.00"}, span : {Absent, "$9.00"}]
    \cup [container : {FALSE}, rows : {<<>>},
          total : {Absent, "$7.00"}, span : {Absent, "$9.00"}]

\* the rows with at least two cells
DataRows(rows) == SelectSeq(rows, LAMBDA cells : Len(cells) >= 2)

\* what process_pricing_data returns: the pair, or a text
Tiered(rows) ==
    [kind |-> "tuple",
     qtys |-> [i \in 1..Len(DataRows(rows)) |-> DataRows(rows)[i][1]],
     prices |-> [i \in 1..Len(DataRows(rows)) |-> DataRows(rows)[i][2]]]
Text(t) == [kind |-> "str", text |-> t]

InitPricing ==
    /\ variant = "ws"
    /\ Detached("pricing")
    /\ dom \in PricingPages
    /\ driverLog = <<>>
    /\ returned = NotCalled

\* the fallback: the wait for span.product-price, "N/A" when it fails
StaticPrice(page) ==
    IF page.span /= Absent THEN Text(page.span) ELSE Text("N/A")

\* process_pricing_data(driver, url, product_name)
WsProcessPricingData ==
    /\ variant = "ws" /\ pc = "pricing"
    /\ IF ~dom.container
       THEN /\ driverLog' = <<"container", "span">>
            /\ returned' = StaticPrice(dom)
       ELSE IF dom.rows /= <<>>
       THEN IF DataRows(dom.rows) /= <<>>
            THEN /\ driverLog' = <<"container", "rows">>
                 /\ returned' = Tiered(dom.rows)
            ELSE /\ driverLog' = <<"container", "rows", "span">>
                 /\ returned' = StaticPrice(dom)
       ELSE IF dom.total /= Absent
       THEN /\ driverLog' = <<"container", "rows", "total">>
            /\ returned' = Text(dom.total)
       ELSE /\ driverLog' = <<"container", "rows", "total", "span">>
            /\ returned' = StaticPrice(dom)
    /\ Goto("priced")
    /\ UNCHANGED <<dom, idx>>
    /\ CallFrame

\* one call of process_pricing_data on a page
SpecPricing == InitPricing /\ [][WsProcessPricingData]_vars

----------------------------------------------------------------------------
(* b2 write_csv on the rows of products of which two have the same name *)

\* the products of the buffer: name, URL, image
CsvProducts ==
    { <<"Banner", P1, "p1.jpg">>, <<"Banner", P2, "p2.jpg">>,
      <<"Stand", PageA, "a.jpg">> }

\* the rows main appends for a product: one without options, or one for
\* each of two options
CsvRowsOf(prod, n) ==
    IF n = 1 THEN << prod \o <<"", "5.0">> >>
    ELSE << prod \o <<"Size: S", "5.0">>, prod \o <<"Size: M", "">> >>

\* all_rows for products in the order prods, the k-th with counts[k] rows
CsvAllRows(prods, counts) ==
    Concat([k \in 1..Len(prods) |-> CsvRowsOf(prods[k], counts[k])])

\* main calls write_csv(all_rows, csv_path) on rows of distinct products
InitCsv ==
    /\ variant = "b2"
    /\ DetachedMemory("flushOpen")
    /\ flushRet = "done"
    /\ \E prods \in SeqsUpTo(CsvProducts, Cardinality(CsvProducts)) :
          /\ prods /= <<>>
          /\ \A i, j \in 1..Len(prods) : i /= j => prods[i] /= prods[j]
          /\ \E counts \in [1..Len(prods) -> 1..2] :
                buffer = CsvAllRows(prods, counts)
    /\ CallIdle

NextCsv == FlushOpen \/ FlushWrite

\* one write_csv of b2
SpecCsv == InitCsv /\ [][NextCsv]_vars

----------------------------------------------------------------------------
(* The specifications *)

Next ==
    \/ FlushOpen \/ FlushWrite \/ Crash
    \/ SdLogin \/ SdProcessKnown \/ SdKnownDone \/ SdCrawlStart \/ SdCrawlStep
    \/ SdCrawlReturn \/ SdProcessNew \/ SdNewDone \/ SdUpdateScrapedUrls
    \/ B2Login \/ B2ProcessKnown \/ B2CrawlStart \/ B2CrawlStep \/ B2CrawlReturn
    \/ B2ProcessNew \/ B2NewDone \/ B2AppendLeftover
    \/ WsStart \/ WsProcessKnown \/ WsKnownDone \/ WsCrawlStart \/ WsCrawlStep
    \/ WsCrawlReturn \/ WsProcessNew \/ WsNewDone

\* one run of a scraper, interrupted or not
Spec == Init /\ [][Next]_vars

\* runs of a scraper, each started after the one before it has ended
SpecRerun == Init /\ [][Next \/ Restart]_vars

----------------------------------------------------------------------------
(* Properties *)

\* the page fetches the crawl of this run has issued, in order
CrawlFetches == SelectSeq(navLog, LAMBDA e : e.phase = "crawl")

\* the known URLs a fresh start of the scraper loads from the file
LoadKnown(v, file) ==
    IF v = "b2" THEN Range(SplitLines(file)) ELSE ReadKnownUrls(file)

\* url matches the exclusion policy of the variant
MatchesExclusion(v, url) ==
    \/ EndsWithExt(url)
    \/ v = "sd" /\ SdExcluded(url)
    \/ v = "b2" /\ B2Excluded(url)
    \/ v = "ws" /\ (WsExcluded(url) \/ HasToken(url, DisplayTokens))

\* url without its fragment and its query string
Canonical(url) == SplitHead(SplitHead(url, FragTokens), QueryTokens)

\* the product URLs that have a row in a result file
ProductUrlsIn(rows) == {rows[i][2] : i \in 1..Len(rows)} \ {<<>>, <<"URL">>}

\* C1: in every crawl_site variant each URL is fetched at most once during a
\* crawl, whatever loads succeed or fail.
C1_EachUrlFetchedAtMostOnce ==
    \A i, j \in 1..Len(CrawlFetches) :
        i /= j => CrawlFetches[i].url /= CrawlFetches[j].url

\* C2: every URL that was in the known-URL file when the run started is in
\* the file at every later point of the run.
C2_KnownFileAppendOnly ==
    startKnown \subseteq LoadKnown(variant, knownFile)

\* C3: in b2 a page whose load fails all MAX_RETRIES attempts never makes
\* the run end by an exception.
C3_LoadFailureNeverAborts ==
    ~(variant = "b2" /\ pc = "aborted" /\ abortCause = "load")

\* C4: after a run was interrupted behind a flush, every flush of the next
\* run leaves a result file that has a row for each product the file had a
\* row for when the next run started.
C4_FlushNeverRegresses ==
    (run > 1 /\ prevFlushed /\ flushedRun)
        => ProductUrlsIn(prevFile) \subseteq ProductUrlsIn(lastSnapshot)

\* C5: once a flush has completed, the result file holds at every instant
\* the rows of the last completed flush.
C5_ResultFileIsSnapshot ==
    flushedOnce => resultFile = lastSnapshot

\* C6: when a run has ended, by its normal end, an exception or an
\* interruption, every URL the crawl classified as a product page is in the
\* known-URL file.
C6_ClassifiedUrlIsKnown ==
    pc \in Ended => product_urls \subseteq LoadKnown(variant, knownFile)

C8_KnownUrlNeverFetched ==
    \A i \in 1..Len(CrawlFetches) : CrawlFetches[i].url \notin startKnown

\* C9: the crawl never fetches a URL that matches the exclusion policy of
\* its variant (excluded substring or denied file extension).
C9_ExcludedUrlNeverFetched ==
    \A i \in 1..Len(CrawlFetches) : ~MatchesExclusion(variant, CrawlFetches[i].url)

\* C9 witness: the crawl has ended, the link to the cart's checkout page came
\* out of the queue and was marked visited, and the product page was found.
C9_Witness ==
    /\ pc = "new"
    /\ CartCheckout \in visited
    /\ P1 \in product_urls

\* C10: the crawl never fetches a URL whose canonical form (fragment and
\* query string stripped) matches the exclusion policy of its variant.
C10_NoBypassByQueryOrFragment ==
    \A i \in 1..Len(CrawlFetches) :
        ~MatchesExclusion(variant, Canonical(CrawlFetches[i].url))

\* the number of elements of the cross product of the option lists behind
\* attribute k
RECURSIVE SizeAfter(_, _)
SizeAfter(as, k) ==
    IF k >= Len(as) THEN 1 ELSE Len(as[k + 1].vals) * SizeAfter(as, k + 1)

\* the option of attribute k in the i-th element of the cross product, the
\* last attribute varying fastest
ChoiceAt(as, i, k) ==
    as[k].vals[(((i - 1) \div SizeAfter(as, k)) % Len(as[k].vals)) + 1]

\* the options text of the record of the i-th element, per scraper
ExpectedOptions(v, as, i) ==
    IF v = "b2"
    THEN Join([k \in 1..Len(as) |-> as[k].name \o ": " \o ChoiceAt(as, i, k)], "; ")
    ELSE IF as = <<>> THEN "N/A"
    ELSE Join([k \in 1..Len(as) |-> ChoiceAt(as, i, k)], ", ")

\* the options text a buffered record carries
RecordOptions(v, rec) == IF v = "b2" THEN rec[4] ELSE rec.option

\* the page has been worked on and every selection succeeded
AllSelected == pc /= "page" /\ \A i \in 1..Len(selLog) : selLog[i]

\* C11: in b2 and ws, a page whose option lists have sizes [a,b,c] and on
\* which every selection succeeds gets exactly a*b*c records, one per element
\* of the cross product, in attribute order with the last attribute varying
\* fastest; a page without attributes gets exactly one record.
C11_CrossProductLaw ==
    (variant \in {"b2", "ws"} /\ AllSelected)
        => /\ Len(buffer) = SizeAfter(attrs, 0)
           /\ \A i \in 1..Len(buffer) :
                RecordOptions(variant, buffer[i]) = ExpectedOptions(variant, attrs, i)

\* the buffer holds a record for the i-th combination of the page
HasRecord(i) ==
    \E k \in 1..Len(buffer) :
        RecordOptions(variant, buffer[k]) = ExpectedOptions(variant, attrs, i)

\* C12: in b2 and ws a combination for which a selection failed (control
\* not found, option not matched) still gets its price read and its record.
C12_SelectionFailureKeepsCombination ==
    (variant \in {"b2", "ws"} /\ pc /= "page")
        => \A i \in 1..Len(selLog) : ~selLog[i] => HasRecord(i)

\* C13: b2 parse_price_table gives a number or None for every text and never
\* raises: "$1,234.50" gives 1234.5, a text without a price such as "TBD"
\* gives None, and a text with "$" that is no well-formed number after
\* stripping gives None.
C13_PriceParsingNeverRaises ==
    pc /= "price" =>
        /\ parsed.kind \in {"float", "None"}
        /\ pc /= "aborted"
        /\ priceText = <<"$", "1", ",", "2", "3", "4", ".", "5", "0">>
              => parsed = [kind |-> "float", int |-> <<"1", "2", "3", "4">>,
                           frac |-> <<"5">>]
        /\ priceText = <<"T", "B", "D">> => parsed.kind = "None"

\* the price read of the i-th combination took place and gave no price
ReadGaveNoPrice(i) ==
    /\ priceLog[i] = "absent"
    /\ variant = "ws" => selLog[i]
    /\ \A j \in 1..(i - 1) : priceLog[j] /= "raise"

\* the buffer holds a record of the i-th combination whose price is empty
HasEmptyPriceRecord(i) ==
    \E k \in 1..Len(buffer) :
        IF variant = "sd" THEN buffer[k].url = P1
        ELSE /\ RecordOptions(variant, buffer[k]) = ExpectedOptions(variant, attrs, i)
             /\ IF variant = "b2" THEN buffer[k][5] = ""
                ELSE buffer[k].prices = <<>>

\* C14: in sd, b2 and ws, a price read of a loaded product page (or of one
\* of its combinations) that yields no price still leaves a record with an
\* empty price in the result buffer.
C14_NoPriceStillRecorded ==
    pc /= "page" =>
        \A i \in 1..Len(priceLog) : ReadGaveNoPrice(i) => HasEmptyPriceRecord(i)

\* a step of main in which a login was attempted and failed: the login at
\* the start of sd and b2, and in ws a call of process_product_page that
\* finds the session logged out and leaves it so
LoginFailsStep ==
    \/ /\ variant \in {"sd", "b2"}
       /\ pc = "start" /\ pc' /= "crashed" /\ ~loggedIn'
    \/ /\ variant = "ws"
       /\ pc \in {"known", "new"} /\ idx' = idx + 1
       /\ ~loggedIn /\ ~loggedIn'

\* C15: in every scraper a login that cannot succeed ends the run: no
\* product page is extracted, no crawl fetch is issued and no record is
\* produced after it.
C15_LoginFailureAbortsRun ==
    [][LoginFailsStep => pc' \in Ended]_vars

\* the URLs main has fetched in its loop over the previously known URLs
KnownFetched == {navLog[i].url : i \in {j \in 1..Len(navLog) : navLog[j].phase = "known"}}

\* C16: in every scraper no crawl fetch precedes the processing of a known
\* URL, and when the first crawl fetch is issued every URL of the known list
\* has been fetched for extraction.
C16_KnownBeforeCrawl ==
    /\ \A i, j \in 1..Len(navLog) :
          (i < j /\ navLog[i].phase = "crawl") => navLog[j].phase /= "known"
    /\ CrawlFetches /= <<>> => startKnown \subseteq KnownFetched

\* the classifier of the variant would answer "product page" for url
WouldClassify(url) ==
    IF variant = "sd" THEN SdIsProductPage(url)
    ELSE IF variant = "b2" THEN B2IsProductPage(url)
    ELSE WsIsProductPage(url)

\* C17: in every crawl_site variant the base URL is never among the product
\* URLs of the crawl, whatever the classifier would answer for its page.
C17_BaseNeverProduct ==
    /\ Base \notin product_urls
    /\ pc = "new" => Base \notin Range(todo)

\* C17 witness: the crawl has ended after the base page, which carries the
\* markers of a product page, was loaded and its links were followed to a
\* product page and to a page that is none.
C17_Witness ==
    /\ pc = "new"
    /\ WouldClassify(Base)
    /\ {Base, PageA} \subseteq visited
    /\ P1 \in product_urls

\* the URLs the crawl has fetched
CrawlFetched == {CrawlFetches[i].url : i \in 1..Len(CrawlFetches)}

\* C18: the list crawl_site returns holds exactly the URLs that this crawl
\* fetched and classified as product pages, each once, and none of the
\* already-known set passed in.
C18_CrawlReturnsNewProducts ==
    (pc = "new" /\ idx = 0) =>
        /\ Range(todo) = product_urls
        /\ Len(todo) = Cardinality(product_urls)
        /\ product_urls \cap already = {}
        /\ \A u \in product_urls : u \in CrawlFetched /\ WouldClassify(u)
        /\ variant \in {"sd", "ws"} =>
              \A u \in (CrawlFetched \cap visited) \ (already \cup {Base}) :
                  WouldClassify(u) => u \in product_urls

\* C18 witness: the crawl was given a known product URL and returns the
\* other product page, which it found behind a page that is no product.
C18_Witness ==
    /\ pc = "new" /\ idx = 0
    /\ already = {P1}
    /\ todo = <<P2>>
    /\ PageA \in CrawlFetched

\* C19: in b2 and ws a flush called again on the same result buffer writes
\* the file content the flush before it wrote, the rewrite of the quantity
\* labels in ws included.
C19_FlushIdempotent ==
    [][(variant \in {"b2", "ws"} /\ pc = "flushWrite" /\ flushedRun)
           => resultFile' = lastSnapshot]_vars

\* C19 witness: ws has flushed twice a buffer of two entries with tiered
\* prices, whose quantity labels the flushes have rewritten.
C19_Witness ==
    /\ variant = "ws" /\ pc = "done"
    /\ Len(buffer) = 2
    /\ \A k \in 1..2 : buffer[k].qtys = <<"'1-9">>
    /\ resultFile = lastSnapshot

\* the link normalization of the variant
Normalize(v, h) ==
    IF v = "sd" THEN SdNormalize(h)
    ELSE IF v = "b2" THEN B2Normalize(h)
    ELSE WsNormalize(h)

\* C20: in every crawl_site variant the link normalization gives back a
\* normalized URL unchanged, and of two same-domain hrefs that differ only
\* by a fragment either both are dropped or both put the same URL into the
\* queue.
C20_FragmentsTreatedAlike ==
    /\ \A k \in 1..Len(href_list) :
          Normalize(variant, Normalize(variant, href_list[k]))
              = Normalize(variant, href_list[k])
    /\ pc = "linked" =>
          \/ to_visit = <<>>
          \/ Len(to_visit) = 2 /\ to_visit[1] = to_visit[2]

\* the URLs of the crawl's queue and of its fetches
CrawlQueuedOrFetched == Range(to_visit) \cup CrawlFetched

\* C21: in every crawl_site variant no URL whose host differs from the host
\* of the base URL is ever put into the queue or fetched by the crawl.
C21_OnlySameSiteCrawled ==
    \A u \in CrawlQueuedOrFetched : Netloc(u) = Netloc(Base)

\* C21 witness: the crawl has loaded the page that links to another site and
\* has put the same-site links of that page into its queue.
C21_Witness ==
    /\ pc = "crawl"
    /\ PageA \in CrawlFetched
    /\ Offsite \in Range(Links(PageA))
    /\ P2 \in Range(to_visit)

\* C22: in every crawl_site variant and for any pattern of load failures,
\* one crawl issues at most max_pages page fetches and its visited set never
\* holds more than max_pages URLs.
C22_PageCeilingBoundsCrawl ==
    /\ Len(CrawlFetches) <= MaxPages
    /\ Cardinality(visited) <= MaxPages

\* the product URL and the combination a buffered record stands for; an sd
\* record holds the whole price table of its product
RecordUrl(v, rec) ==
    IF v = "sd" THEN rec.url ELSE IF v = "b2" THEN rec[2] ELSE rec.product[2]

RecordKey(v, rec) ==
    <<RecordUrl(v, rec), IF v = "sd" THEN "" ELSE RecordOptions(v, rec)>>

\* the product URLs that have a record in the buffer
RecordUrls == {RecordUrl(variant, buffer[i]) : i \in 1..Len(buffer)}

\* the URLs main has fetched for extraction in the given phase
PhaseFetched(phase) ==
    {navLog[i].url : i \in {j \in 1..Len(navLog) : navLog[j].phase = phase}}

\* C23: within one run of any scraper the result buffer never holds two
\* records for the same (product URL, combination), and no URL the new-URL
\* loop still has to extract has a record in the buffer already.
C23_NoDuplicateRecords ==
    /\ \A i, j \in 1..Len(buffer) :
          i /= j => RecordKey(variant, buffer[i]) /= RecordKey(variant, buffer[j])
    /\ pc = "new" => Range(todo) \cap RecordUrls = {}

\* C23 witness: the run has ended with records of a product of the known
\* list and of a product the crawl found, two combinations among them.
C23_Witness ==
    /\ pc = "done"
    /\ P1 \in PhaseFetched("known")
    /\ P2 \in PhaseFetched("new")
    /\ RecordUrls = {P1, P2}
    /\ Len(buffer) = 3

\* C24: in every crawl_site variant, at every point of the crawl the visited
\* set holds at most as many URLs as the crawl has issued page fetches for.
C24_VisitedAtMostFetched ==
    Cardinality(visited) <= Cardinality(CrawlFetched)

\* C25: on a site whose pages show finitely many links, with cyclic links
\* or an endless supply of new URLs, and for any pattern of load failures,
\* the loop of crawl_site eventually exits and crawl_site returns.
C25_CrawlTerminates == <>(pc = "new")

\* C25 witness: on the endless site the crawl has returned at the page
\* ceiling with URLs left in its queue.
C25_Witness ==
    /\ pc = "new"
    /\ site = "endless"
    /\ Cardinality(visited) = MaxPages
    /\ to_visit /= <<>>

\* the log of k failed attempts, each followed by the wait of RETRY_DELAY
FailSleep(k) ==
    [i \in 1..(2 * k) |-> IF i % 2 = 1 THEN "WebDriverException" ELSE "sleep"]

\* the page load has ended without the page
LoadGivenUp == pc = "gaveUp" \/ (pc = "aborted" /\ abortCause = "load")

\* C26: b2 load_page_with_retry issues at most MAX_RETRIES attempts for one
\* URL, returns at the first attempt that succeeds, reports failure only
\* after exactly MAX_RETRIES failed attempts in a row, and waits RETRY_DELAY
\* after each failed attempt except the last.
C26_RetryPolicyOfB2 ==
    variant = "b2" =>
        /\ Gets(loadLog) <= MAX_RETRIES
        /\ pc = "load" =>
              \E k \in 0..(MAX_RETRIES - 1) : loadLog = FailSleep(k)
        /\ pc = "loaded" =>
              \E k \in 0..(MAX_RETRIES - 1) : loadLog = FailSleep(k) \o <<"ok">>
        /\ LoadGivenUp =>
              loadLog = FailSleep(MAX_RETRIES - 1) \o <<"WebDriverException">>

\* C26 witness: the crawl of b2 has given a URL up after the last attempt.
C26_Witness ==
    /\ variant = "b2" /\ caller = "crawl"
    /\ pc = "gaveUp"
    /\ Fails(loadLog) = MAX_RETRIES

\* C27: in sd, b2 and ws every page load, in the crawl and in the product
\* processing, gives a URL up only after MAX_RETRIES failed load attempts.
C27_EveryLoadRetries ==
    LoadGivenUp => Fails(loadLog) = MAX_RETRIES

\* the URLs put into the queue, in order
EnqueuedUrls == [i \in 1..Len(enqueued) |-> enqueued[i].url]

\* C28: in every crawl_site variant the URLs leave the queue in exactly the
\* order in which they were put into it, and a URL first found at link
\* distance d from the base URL leaves the queue before any URL first found
\* at distance d+1.
C28_QueueIsFifoBreadthFirst ==
    /\ dequeued \o to_visit = EnqueuedUrls
    /\ \A i \in 1..Len(dequeued), j \in 1..Len(enqueued) :
          FirstDistance(enqueued, enqueued[j].url) + 1
                = FirstDistance(enqueued, dequeued[i])
              => \E k \in 1..(i - 1) : dequeued[k] = enqueued[j].url

\* the product URLs that have a row in the result file
FileUrls == {resultFile[i][2] : i \in 1..Len(resultFile)} \ {<<>>, <<"URL">>}

\* the products with records in the buffer and none in the result file
Unflushed == RecordUrls \ FileUrls

\* C29: in every scraper and in both processing loops, outside a save in
\* progress, fewer than SaveEvery processed products have their records in
\* the buffer and not in the result file, whatever products fail to load or
\* are skipped.
C29_FlushEveryNProducts ==
    pc \notin {"flushOpen", "flushWrite", "crashed"}
        => Cardinality(Unflushed) < SaveEvery

\* C30: when main has ended without an exception the result file holds the
\* rows of every record of the buffer, in buffer order.
C30_FinalFlushAtNormalEnd ==
    pc = "done" => resultFile = WrittenRows(variant, buffer)

\* a run has ended normally with a record that was appended after the last
\* periodic save
C30_Witness ==
    /\ pc = "done"
    /\ Cardinality(RecordUrls) % SaveEvery /= 0
    /\ buffer /= <<>>
    /\ RecordUrl(variant, buffer[Len(buffer)]) \in PhaseFetched("new")

\* s is an initial part of t
IsPrefix(s, t) == Len(s) <= Len(t) /\ SubSeq(t, 1, Len(s)) = s

\* C31: within one run every step leaves the records the buffer holds in
\* place, so the buffer changes by appends only, and the rows a save writes
\* begin with the rows the save before it wrote.
C31_BufferAndFlushesGrow ==
    [][/\ IsPrefix(buffer, buffer')
       /\ IsPrefix(lastSnapshot, lastSnapshot')]_vars

\* C32: in ws no step changes a field of an entry that is in option_data.
C32_RecordNeverMutated ==
    [][variant = "ws" =>
          \A i \in 1..Len(buffer) : i <= Len(buffer') /\ buffer'[i] = buffer[i]]_vars

\* the title element and the price element of a product page, by scraper;
\* in sd the container of the price table stands for the price element
TitleMarker(v) ==
    IF v = "sd" THEN "title-breadcrumb"
    ELSE IF v = "b2" THEN "item-view-title" ELSE WsTitle
PriceMarker(v) ==
    IF v = "sd" THEN ".product-detail-container"
    ELSE IF v = "b2" THEN "_subtotal_" ELSE WsPrice

\* C33: in every scraper is_product_page returns True only for a page that
\* carries both the title element and the price element, and returns False,
\* raising nothing, when an element it waits for does not appear.
C33_BothMarkersRequired ==
    pc = "classified" =>
        /\ returned \in {"True", "False"}
        /\ returned = "True" =>
              {TitleMarker(variant), PriceMarker(variant)} \subseteq dom.present
        /\ (\E i \in 1..Len(driverLog) :
                /\ driverLog[i].r = "TimeoutException"
                /\ driverLog[i].el \notin Range(WsExclusionIds))
              => returned = "False"

\* C34: in every scraper a login has succeeded before main fetches the first
\* product page for extraction and before the crawl issues its first fetch,
\* also when there is no known URL.
C34_LoginBeforePageWork ==
    navLog /= <<>> => loggedIn

\* C35: b2 get_attribute_options has closed every popover it opened when it
\* goes on to the next select and when it returns, also when the list of a
\* select did not become visible in the wait budget after the click.
C35_NoPopoverLeftOpen ==
    pc \in {"options", "optionsDone"} => dom.open = {}

\* C36: ws process_pricing_data raises nothing; it returns the pair of the
\* quantities and prices, of equal length, whenever the table has a row with
\* two cells; it reads the static price span only on a page that has neither
\* such a row nor the live total element; and it returns "N/A" only on a page
\* that has none of the three.
C36_PricingShapePrecedence ==
    pc = "priced" =>
        /\ returned.kind \in {"tuple", "str"}
        /\ DataRows(dom.rows) /= <<>> =>
              /\ returned.kind = "tuple"
              /\ Len(returned.qtys) = Len(returned.prices)
              /\ returned.qtys /= <<>>
        /\ "span" \in Range(driverLog) =>
              DataRows(dom.rows) = <<>> /\ dom.total = Absent
        /\ returned = Text("N/A") =>
              /\ DataRows(dom.rows) = <<>>
              /\ dom.total = Absent
              /\ dom.span = Absent

\* the URLs main has iterated in its loop over the new URLs, in order
NewFetches ==
    LET new == SelectSeq(navLog, LAMBDA e : e.phase = "new")
    IN  [i \in 1..Len(new) |-> new[i].url]

C38_ParsedPriceRecorded ==
    (pc = "rowAppended" /\ parsed.kind = "float") =>
        /\ buffer[Len(buffer)][5] = FloatText(parsed)
        /\ buffer[Len(buffer)][5] /= <<>>

\* C39: the file b2 write_csv has written carries, for every product with
\* rows in the buffer, the product's name, URL and image on the first row of
\* its group, also when products next to each other have the same name.
C39_WriteCsvKeepsIdentity ==
    (variant = "b2" /\ pc = "done" /\ flushedRun) =>
        \A i \in 1..Len(buffer) :
            (i = 1 \/ buffer[i - 1][2] /= buffer[i][2])
                => SubSeq(resultFile[i + 1], 1, 3) = SubSeq(buffer[i], 1, 3)

\* C40: in ws a product page that process_product_page has loaded has at
\* least one entry in option_data, exactly one of its entries has first =
\* True, and that entry is the earliest of them, also when selections fail.
C40_WsOneIdentityRow ==
    (variant = "ws" /\ pc /= "page") =>
        /\ buffer /= <<>>
        /\ Cardinality({i \in 1..Len(buffer) : buffer[i].first}) = 1
        /\ buffer[1].first

====
